---- MODULE Spec2Model ----
(***************************************************************************)
(* Yuno OS installer: the chroot session (pkg/chroot), the installation    *)
(* step runner (pkg/installer) and the partition planner / applier /       *)
(* mount orchestrator (pkg/partition), as state machines over the external *)
(* commands they issue.                                                    *)
(***************************************************************************)
EXTENDS Integers, Sequences, FiniteSets, TLC

VARIABLES
    isUEFI,       \* utils.IsUEFI(): the host has /sys/firmware/efi
    mtab,         \* the kernel's mount table: the set of mounted targets
    cmds,         \* external commands issued by the operation in progress
    mounted,      \* chroot.Manager.mounted, the tracked-mounts list
    mounted0,     \* chroot.Manager.mounted as it was when the call began
    mtab0,        \* the mount table as it was when the call began
    chrootManager,\* Installer.chrootManager # nil
    cpc,          \* position of the chroot session's caller / method
    ci,           \* loop index of Setup / Teardown
    cerr,         \* the error the last chroot call returned (Nil if none)
    ncalls,       \* number of Setup / Teardown calls made on the session
    ipc,          \* position of Installer.Install
    step,         \* loop variable of Installer.Install
    currentStep,  \* Installer.currentStep
    invoked,      \* the step functions Install has invoked, in order
    serr,         \* err, what the step function of the iteration returned
    result,       \* the value Install returned
    progressCb,   \* Installer.progressCb # nil
    outputCb,     \* Installer.outputCb # nil
    events,       \* the calls made to the two callbacks, in order
    fops,         \* the sub-operations finalize has run, with their outcome
    tape,         \* what the environment did at each step of the run
    run,          \* 1 for a run of Install, 2 for its headless replay
    first,        \* how run 1 began and ended
    device,       \* config.Disk.Device, the device argument
    disks,        \* the disks lsblk lists
    meminfo,      \* grep MemTotal /proc/meminfo: whether it ran, and the kB
    useEncryption,\* config.Encryption.Type # EncryptNone
    layout,       \* the PartitionLayout planned or handed in
    mounts,       \* MountPartitions' sorted list of mountInfo
    ppc,          \* position of the partition Manager's method
    pidx,         \* loop index of ApplyLayout / MountPartitions
    perr,         \* the error the partition Manager's method returned
    callback,     \* RunCommandWithOutput's callback # nil
    written,      \* the lines the command writes to stdout and to stderr
    scanned,      \* per stream, the number of lines its reader has consumed
    rpc,          \* position of RunCommandWithOutput and of its two readers
    delivered,    \* the calls made to callback, in order
    rerr,         \* the value RunCommandWithOutput returned
    blkid,        \* per partition number, what blkid prints for its device
    fstab,        \* /mnt/gentoo/etc/fstab: the strings written to it, in order
    s3pc,         \* position of stage3.Manager.Install
    s3log,        \* what stage3.Manager.Install has done, in order
    s3err,        \* the error stage3.Manager.Install returned
    config,       \* yuno-use: the Config the flags were parsed into
    files,        \* yuno-use: the files and directories under /etc/portage
    files0,       \* yuno-use: files as they were when yuno-use started
    useReqs,      \* yuno-use: the USE requirements still to be processed
    keywordReqs,  \* yuno-use: the keyword requirements still to be processed
    ypc,          \* yuno-use: position of main
    yi,           \* yuno-use: requirements processed so far
    printed,      \* yuno-use: what it told the user about each requirement
    yrun,         \* yuno-use: 1 in the first run on an input, 2 in the second
    files1,       \* yuno-use: the file system the first run left
    printed1,     \* yuno-use: what the first run told the user
    app,          \* tui: the App model
    pending,      \* tui: messages of commands that have not been delivered
    tcmds,        \* tui: commands the App has returned to the runtime
    key,          \* tui: the message Update handled last
    dlog,         \* every external command issued since Install was called
    wg            \* the counter of the sync.WaitGroup of RunCommandWithOutput

chrootVars == <<isUEFI, mtab, cmds, mounted, mounted0, mtab0, chrootManager, cpc, ci, cerr>>

instVars == <<ipc, step, currentStep, invoked, serr, result, progressCb, outputCb, events, fops>>

replayVars == <<tape, run, first>>

partVars == <<device, disks, meminfo, useEncryption, layout, mounts, ppc, pidx, perr>>

pipeVars == <<callback, written, scanned, rpc, delivered, rerr, wg>>

fstabVars == <<blkid, fstab>>

stage3Vars == <<s3pc, s3log, s3err>>

useVars == <<config, files, files0, useReqs, keywordReqs, ypc, yi, printed, yrun, files1, printed1>>

tuiVars == <<app, pending, tcmds, key>>

vars == <<chrootVars, ncalls, instVars, replayVars, partVars, pipeVars, fstabVars, stage3Vars, useVars, tuiVars, dlog>>

\* ------------------------------------------------------------- bounds
\* requirements of each kind in one input of yuno-use
MaxReqs == 2

\* the focus index the down and tab keys are followed to
MaxFocus == 2

MaxCalls == 3
MaxPreMounted == 1
MaxParts == 3
MaxFailures == 1
MaxRuns == 2
MaxLines == 2

\* ------------------------------------------------------------- helpers
Last(s) == s[Len(s)]

Front(s) == SubSeq(s, 1, Len(s) - 1)

Reverse(s) == [k \in 1..Len(s) |-> s[Len(s) + 1 - k]]

Range(s) == {s[k] : k \in 1..Len(s)}

HasPrefix(s, p) == Len(s) >= Len(p) /\ SubSeq(s, 1, Len(p)) = p

\* strings.Contains(s, sub)
Contains(s, sub) ==
    \E k \in 1..(Len(s) - Len(sub) + 1) : SubSeq(s, k, k + Len(sub) - 1) = sub

\* the decimal digit d as a string
Digit(d) == SubSeq("0123456789", d + 1, d + 1)

IsDigit(c) == \E d \in 0..9 : Digit(d) = c

\* fmt.Sprintf("%d", n)
RECURSIVE Itoa(_)
Itoa(n) ==
    IF n < 0 THEN "-" \o Itoa(0 - n)
    ELSE IF n < 10 THEN Digit(n)
    ELSE Itoa(n \div 10) \o Digit(n % 10)

\* strconv.Atoi of a string of digits
RECURSIVE Atoi(_)
Atoi(str) ==
    IF str = "" THEN 0
    ELSE 10 * Atoi(SubSeq(str, 1, Len(str) - 1))
           + (CHOOSE d \in 0..9 : Digit(d) = SubSeq(str, Len(str), Len(str)))

\* regexp (\d+) FindString: the leftmost longest run of digits of s
FindDigits(s) ==
    IF \A k \in 1..Len(s) : ~IsDigit(SubSeq(s, k, k)) THEN ""
    ELSE LET a == CHOOSE k \in 1..Len(s) :
                     /\ IsDigit(SubSeq(s, k, k))
                     /\ \A j \in 1..(k - 1) : ~IsDigit(SubSeq(s, j, j))
             b == CHOOSE k \in a..Len(s) :
                     /\ \A j \in a..k : IsDigit(SubSeq(s, j, j))
                     /\ (k = Len(s) \/ ~IsDigit(SubSeq(s, k + 1, k + 1)))
         IN SubSeq(s, a, b)

\* filepath.Join(dir, rel) for a clean dir and a clean relative path
Join(dir, rel) == dir \o "/" \o rel

\* ------------------------------------------------------------- utils
TargetDir == "/mnt/gentoo"

\* the argument vector utils.Mount hands to mount(8)
MountArgs(source, target, fstype, flags) ==
    (IF fstype # "" THEN <<"-t", fstype>> ELSE <<>>)
        \o (IF flags # "" THEN <<"-o", flags>> ELSE <<>>)
        \o <<source, target>>

\* utils.BindMount
BindMountArgs(source, target) == MountArgs(source, target, "", "bind")

\* utils.Unmount: umount -R target
UnmountArgs(target) == <<"-R", target>>

\* utils.IsMounted: mountpoint -q path exits 0
IsMounted(path) == path \in mtab

\* the mounts that lie strictly beneath path
Beneath(path) == {t \in mtab : HasPrefix(t, path \o "/")}

Cmd(name, args, ok) == [cmd |-> name, args |-> args, ok |-> ok]

\* ------------------------------------------------------------- errors
\* the nil error
Nil == [type |-> "nil"]

\* an error of the operating system or of a command that exited non-zero
OSError == [type |-> "os", text |-> "exit status 1"]

\* utils.NewError: a *YunoError
NewError(op, message, err) ==
    [type |-> "YunoError", Op |-> op, Message |-> message, Err |-> err]

\* fmt.Errorf(prefix + "%w", err)
Errorf(prefix, errText, err) ==
    [type |-> "fmt.wrapError", text |-> prefix \o errText, Err |-> err]

\* error.Error()
RECURSIVE ErrorString(_)
ErrorString(e) ==
    IF e.type = "YunoError"
    THEN IF e.Err # Nil
         THEN e.Op \o ": " \o e.Message \o ": " \o ErrorString(e.Err)
         ELSE e.Op \o ": " \o e.Message
    ELSE e.text

\* utils.Mount's result for a mount(8) that succeeded or failed
MountResult(source, target, ok) ==
    IF ok THEN Nil
    ELSE NewError("mount", "failed to mount " \o source \o " on " \o target, OSError)

\* ------------------------------------------------------------- chroot
DefaultMounts(targetDir) == <<
    [Source |-> "proc", Target |-> Join(targetDir, "proc"), FSType |-> "proc", Flags |-> "", Bind |-> FALSE],
    [Source |-> "sysfs", Target |-> Join(targetDir, "sys"), FSType |-> "sysfs", Flags |-> "", Bind |-> FALSE],
    [Source |-> "devtmpfs", Target |-> Join(targetDir, "dev"), FSType |-> "devtmpfs", Flags |-> "", Bind |-> FALSE],
    [Source |-> "devpts", Target |-> Join(targetDir, "dev/pts"), FSType |-> "devpts", Flags |-> "gid=5,mode=620", Bind |-> FALSE],
    [Source |-> "tmpfs", Target |-> Join(targetDir, "dev/shm"), FSType |-> "tmpfs", Flags |-> "nosuid,nodev", Bind |-> FALSE],
    [Source |-> "/run", Target |-> Join(targetDir, "run"), FSType |-> "", Flags |-> "", Bind |-> TRUE],
    [Source |-> "tmpfs", Target |-> Join(targetDir, "tmp"), FSType |-> "tmpfs", Flags |-> "", Bind |-> FALSE],
    [Source |-> "efivarfs", Target |-> Join(targetDir, "sys/firmware/efi/efivars"), FSType |-> "efivarfs", Flags |-> "", Bind |-> FALSE] >>

ChrootTargets == {DefaultMounts(TargetDir)[k].Target : k \in 1..Len(DefaultMounts(TargetDir))}

\* chroot.NewManager
NewManager ==
    /\ mounted' = <<>>
    /\ chrootManager' = TRUE

\* entry of Manager.Setup on the session as it is (mounted' is already set)
SetupEnter ==
    /\ cpc' = "setup"
    /\ ci' = 1
    /\ cmds' = <<>>
    /\ mounted0' = mounted'
    /\ mtab0' = mtab
    /\ cerr' = Nil

\* Manager.Setup returns err
SetupReturn(err) ==
    /\ cpc' = "setup_ret"
    /\ cerr' = err

\* the mount(8) invocation of one Setup iteration
SetupMountArgs(mount) ==
    IF mount.Bind THEN BindMountArgs(mount.Source, mount.Target)
    ELSE MountArgs(mount.Source, mount.Target, mount.FSType, mount.Flags)

\* mutant: Setup without its idempotence guard
SetupNeverSkips(target) == FALSE

\* the idempotence guard of Setup: the target is skipped
SetupSkips(target) == IsMounted(target)

\* mutant: a mount that succeeded is not recorded
TrackNot(list, target) == list

\* m.mounted = append(m.mounted, mount.Target)
Track(list, target) == Append(list, target)

\* mutant: Setup tolerates no failed mount
SetupToleratesNone(mount) == FALSE

\* the failed mount Setup only warns about: efivarfs
SetupTolerates(mount) == mount.FSType = "efivarfs"

\* one iteration of the loop of Manager.Setup over DefaultMounts
SetupStep ==
    /\ cpc = "setup"
    /\ ci <= Len(DefaultMounts(TargetDir))
    /\ LET mount == DefaultMounts(TargetDir)[ci] IN
       IF mount.FSType = "efivarfs" /\ ~isUEFI
       THEN /\ ci' = ci + 1
            /\ UNCHANGED <<mtab, cmds, mounted, cpc, cerr>>
       ELSE \E mkdirOk \in BOOLEAN, mountOk \in BOOLEAN :
            IF ~mkdirOk
            THEN /\ mountOk
                 /\ SetupReturn(NewError("chroot", "failed to create " \o mount.Target, OSError))
                 /\ UNCHANGED <<mtab, cmds, mounted, ci>>
            ELSE IF SetupSkips(mount.Target)
            THEN /\ mountOk
                 /\ ci' = ci + 1
                 /\ UNCHANGED <<mtab, cmds, mounted, cpc, cerr>>
            ELSE /\ cmds' = Append(cmds, Cmd("mount", SetupMountArgs(mount), mountOk))
                 /\ IF mountOk
                    THEN /\ mtab' = mtab \cup {mount.Target}
                         /\ mounted' = Track(mounted, mount.Target)
                         /\ ci' = ci + 1
                         /\ UNCHANGED <<cpc, cerr>>
                    ELSE IF SetupTolerates(mount)
                    THEN /\ ci' = ci + 1
                         /\ UNCHANGED <<mtab, mounted, cpc, cerr>>
                    ELSE /\ SetupReturn(MountResult(mount.Source, mount.Target, FALSE))
                         /\ UNCHANGED <<mtab, mounted, ci>>
    /\ UNCHANGED <<isUEFI, mounted0, mtab0, chrootManager>>

\* after the loop: copyResolv (its failure is only logged), return nil
SetupFinish ==
    /\ cpc = "setup"
    /\ ci > Len(DefaultMounts(TargetDir))
    /\ SetupReturn(Nil)
    /\ UNCHANGED <<isUEFI, mtab, cmds, mounted, mounted0, mtab0, chrootManager, ci>>

\* entry of Manager.Teardown
TeardownEnter ==
    /\ cpc' = "teardown"
    /\ ci' = Len(mounted)
    /\ cmds' = <<>>
    /\ mounted0' = mounted
    /\ mtab0' = mtab
    /\ cerr' = Nil

\* the index Teardown visits after index k
TeardownNextIndex(k) == k - 1

\* mutant: Teardown gives up at the first unmount that fails
TeardownStopsOnFailure(ok) == ok

\* whether the loop of Teardown goes on after an unmount that returned ok
TeardownContinues(ok) == TRUE

\* the mounts umount -R takes along with a tracked mount: those made on top
\* of it, which are the targets beneath it that the session mounted after
\* it; a target that was mounted there before it lies under it and stays
Children(mount) == {t \in Beneath(mount) : \E k \in 1..Len(mounted) : mounted[k] = t}

\* one iteration of the loop of Manager.Teardown
TeardownStep ==
    /\ cpc = "teardown"
    /\ ci >= 1
    /\ ci <= Len(mounted)
    /\ LET mount == mounted[ci] IN
       IF IsMounted(mount)
       THEN \E ok \in BOOLEAN, gone \in SUBSET Children(mount) :
            /\ ok => gone = Children(mount)
            /\ cmds' = Append(cmds, Cmd("umount", UnmountArgs(mount), ok))
            /\ mtab' = (mtab \ gone) \ (IF ok THEN {mount} ELSE {})
            /\ ci' = IF TeardownContinues(ok) THEN TeardownNextIndex(ci) ELSE 0
       ELSE /\ ci' = TeardownNextIndex(ci)
            /\ UNCHANGED <<mtab, cmds>>
    /\ UNCHANGED <<isUEFI, mounted, mounted0, mtab0, chrootManager, cpc, cerr>>

\* mutant: the tracked list outlives Teardown
NotCleared(list) == list

\* m.mounted = []string{}
Cleared(list) == <<>>

\* after the loop: clear the tracked list, return nil
TeardownFinish ==
    /\ cpc = "teardown"
    /\ (ci < 1 \/ ci > Len(mounted))
    /\ mounted' = Cleared(mounted)
    /\ cpc' = "teardown_ret"
    /\ UNCHANGED <<isUEFI, mtab, cmds, mounted0, mtab0, chrootManager, ci, cerr>>

\* a caller of the session calls Setup
CallSetup ==
    /\ cpc \in {"new", "setup_ret", "teardown_ret"}
    /\ ncalls < MaxCalls
    /\ ncalls' = ncalls + 1
    /\ UNCHANGED <<mounted, chrootManager>>
    /\ SetupEnter
    /\ UNCHANGED <<isUEFI, mtab>>

\* a caller of the session calls Teardown
CallTeardown ==
    /\ cpc \in {"new", "setup_ret", "teardown_ret"}
    /\ ncalls < MaxCalls
    /\ ncalls' = ncalls + 1
    /\ TeardownEnter
    /\ UNCHANGED <<isUEFI, mtab, mounted, chrootManager>>

\* ------------------------------------------------------------- partition
\* the nil *PartitionLayout
NoLayout == [Scheme |-> "", Partitions |-> <<>>]

\* the nil *Disk
NoDisk == [Name |-> "", Path |-> "", SizeMiB |-> 0, Children |-> <<>>]

\* utils.GetMemoryMB
GetMemoryMB(mem) == IF ~mem.ok THEN 0 ELSE mem.totalKB \div 1024

\* parseStartMiB
parseStartMiB(s) == IF FindDigits(s) = "" THEN 0 ELSE Atoi(FindDigits(s))

\* fmt.Sprintf("%dMiB", n)
SprintfMiB(n) == Itoa(n) \o "MiB"

\* mutant: the device suffix rule without the p of nvme and mmcblk devices
getPartitionDeviceNoP(disk, partNum) == disk \o Itoa(partNum)

\* partition.getPartitionDevice
getPartitionDevice(disk, partNum) ==
    IF Contains(disk, "nvme") \/ Contains(disk, "mmcblk")
    THEN disk \o "p" \o Itoa(partNum)
    ELSE disk \o Itoa(partNum)

\* mutant: a device that is not listed is taken for a disk of no size
GetDiskUnlisted(lsblkOk, dev) ==
    [disk |-> [NoDisk EXCEPT !.Path = dev], err |-> Nil]

\* Manager.GetDisk over the listing ListDisks returns
GetDisk(lsblkOk, dev) ==
    IF ~lsblkOk
    THEN [disk |-> NoDisk, err |-> NewError("partition", "failed to list disks", OSError)]
    ELSE IF \E k \in 1..Len(disks) : disks[k].Path = dev \/ disks[k].Name = dev
    THEN [disk |-> disks[CHOOSE k \in 1..Len(disks) :
                            /\ (disks[k].Path = dev \/ disks[k].Name = dev)
                            /\ \A j \in 1..(k - 1) : ~(disks[j].Path = dev \/ disks[j].Name = dev)],
          err |-> Nil]
    ELSE [disk |-> NoDisk, err |-> NewError("partition", "disk " \o dev \o " not found", Nil)]

LayoutPartition(number, start, end, size, fs, mountPoint, label, flags, encrypt) ==
    [Number |-> number, Start |-> start, End |-> end, Size |-> size,
     Filesystem |-> fs, MountPoint |-> mountPoint, Label |-> label,
     Flags |-> flags, Encrypt |-> encrypt]

\* mutant: swap sized by RAM with the 8 GiB cap but no 1 GiB floor
SwapMBNoFloor(memMB) == IF memMB > 8192 THEN 8192 ELSE memMB

\* the swap size CreateAutoLayout derives from the RAM size
SwapMB(memMB) ==
    LET capped == IF memMB > 8192 THEN 8192 ELSE memMB
    IN IF capped < 1024 THEN 1024 ELSE capped

\* mutant: the swap end is the swap size, its start offset forgotten
SwapEndNoStart(currentPos, swapMB) == SprintfMiB(swapMB)

\* swapEnd of CreateAutoLayout
SwapEnd(currentPos, swapMB) == SprintfMiB(parseStartMiB(currentPos) + swapMB)

\* mutant: partNum is not advanced
PartNumStuck(partNum) == partNum

\* partNum++
NextPartNum(partNum) == partNum + 1

\* the partitions CreateAutoLayout puts before swap, from partNum and currentPos
BootPartitions(uefi, partNum, currentPos) ==
    IF uefi
    THEN << LayoutPartition(partNum, currentPos, "1025MiB", "1024MiB", "fat32",
                            "/boot", "ESP", <<"boot", "esp">>, FALSE) >>
    ELSE << LayoutPartition(partNum, currentPos, "3MiB", "2MiB", "none",
                            "", "BIOS", <<"bios_grub">>, FALSE),
            LayoutPartition(NextPartNum(partNum), "3MiB", "515MiB", "512MiB", "ext4",
                            "/boot", "boot", <<"boot">>, FALSE) >>

\* the layout CreateAutoLayout builds for a disk it found
AutoLayout(disk, uefi, enc, memMB) ==
    LET boot == BootPartitions(uefi, 1, "1MiB")
        partNum1 == IF uefi THEN NextPartNum(1) ELSE NextPartNum(NextPartNum(1))
        pos1 == IF uefi THEN "1025MiB" ELSE "515MiB"
        swapMB == SwapMB(memMB)
        swapEnd == SwapEnd(pos1, swapMB)
        swap == LayoutPartition(partNum1, pos1, swapEnd, SprintfMiB(swapMB), "swap",
                                "", "swap", <<>>, FALSE)
        root == LayoutPartition(NextPartNum(partNum1), swapEnd, "100%",
                                SprintfMiB(disk.SizeMiB - parseStartMiB(swapEnd)), "ext4",
                                "/", "root", <<>>, enc)
    IN [Scheme |-> IF uefi THEN "gpt" ELSE "mbr", Partitions |-> boot \o <<swap, root>>]

\* mutant: a disk smaller than the partitions before root is rejected
CreateAutoLayoutValidated(lsblkOk, dev, uefi, enc) ==
    LET got == GetDisk(lsblkOk, dev)
        planned == AutoLayout(got.disk, uefi, enc, GetMemoryMB(meminfo))
    IN IF got.err # Nil
       THEN [layout |-> NoLayout, err |-> got.err]
       ELSE IF got.disk.SizeMiB < parseStartMiB(Last(planned.Partitions).Start)
       THEN [layout |-> NoLayout, err |-> NewError("partition", "disk too small", Nil)]
       ELSE [layout |-> planned, err |-> Nil]

\* Manager.CreateAutoLayout
CreateAutoLayout(lsblkOk, dev, uefi, enc) ==
    LET got == GetDisk(lsblkOk, dev)
    IN IF got.err # Nil
       THEN [layout |-> NoLayout, err |-> got.err]
       ELSE [layout |-> AutoLayout(got.disk, uefi, enc, GetMemoryMB(meminfo)), err |-> Nil]

\* a call of CreateAutoLayout on the configured device
PlanLayout ==
    /\ ppc = "idle"
    /\ \E lsblkOk \in BOOLEAN :
         LET r == CreateAutoLayout(lsblkOk, device, isUEFI, useEncryption)
         IN /\ layout' = r.layout
            /\ perr' = r.err
    /\ ppc' = "planned"
    /\ UNCHANGED <<device, disks, meminfo, useEncryption, mounts, pidx>>

\* the mountInfo list MountPartitions collects from the layout
CollectMounts(dev, parts) ==
    LET withMP == SelectSeq(parts, LAMBDA part : part.MountPoint # "")
    IN [k \in 1..Len(withMP) |->
          [device |-> getPartitionDevice(dev, withMP[k].Number),
           mountPoint |-> withMP[k].MountPoint,
           fstype |-> withMP[k].Filesystem]]

\* mounts[i], mounts[j] = mounts[j], mounts[i]
SwapAt(s, i, j) == [s EXCEPT ![i] = s[j], ![j] = s[i]]

\* mutant: the comparison of the sort turned round
LongerMount(a, b) == Len(a.mountPoint) > Len(b.mountPoint)

\* the comparison of the sort: len(a.mountPoint) < len(b.mountPoint)
ShorterMount(a, b) == Len(a.mountPoint) < Len(b.mountPoint)

\* the inner loop of the sort of MountPartitions, from index j on
RECURSIVE SortInner(_, _, _)
SortInner(s, i, j) ==
    IF j > Len(s) THEN s
    ELSE SortInner(IF ShorterMount(s[j], s[i]) THEN SwapAt(s, i, j) ELSE s, i, j + 1)

\* the outer loop of the sort of MountPartitions, from index i on
RECURSIVE SortOuter(_, _)
SortOuter(s, i) ==
    IF i > Len(s) - 1 THEN s
    ELSE SortOuter(SortInner(s, i, i + 1), i + 1)

\* mutant: the list is mounted in layout order
SortMountsNot(s) == s

\* the sort of MountPartitions by mount point length
SortMounts(s) == SortOuter(s, 1)

\* entry of Manager.MountPartitions, on a new Manager or after a previous
\* run has returned: collect and sort
MountEnter ==
    /\ ppc \in {"idle", "mount_ret", "apply_ret"}
    /\ ncalls < MaxRuns
    /\ ncalls' = ncalls + 1
    /\ mtab0' = mtab
    /\ mounts' = SortMounts(CollectMounts(device, layout.Partitions))
    /\ pidx' = 1
    /\ cmds' = <<>>
    /\ ppc' = "mount"
    /\ perr' = Nil
    /\ UNCHANGED <<device, disks, meminfo, useEncryption, layout, mtab>>

\* Manager.MountPartitions returns err
MountReturn(err) ==
    /\ ppc' = "mount_ret"
    /\ perr' = err

\* one iteration of the mount loop of MountPartitions
MountStep ==
    /\ ppc = "mount"
    /\ pidx <= Len(mounts)
    /\ LET mount == mounts[pidx]
           target == TargetDir \o mount.mountPoint
           fstype == IF mount.fstype = "fat32" THEN "vfat" ELSE mount.fstype
       IN \E mkdirOk \in BOOLEAN, mountOk \in BOOLEAN :
            IF ~mkdirOk
            THEN /\ mountOk
                 /\ MountReturn(NewError("partition", "failed to create mount point " \o target, OSError))
                 /\ UNCHANGED <<cmds, mtab, pidx>>
            ELSE /\ cmds' = Append(cmds, Cmd("mount", MountArgs(mount.device, target, fstype, ""), mountOk))
                 /\ IF mountOk
                    THEN /\ mtab' = mtab \cup {target}
                         /\ pidx' = pidx + 1
                         /\ UNCHANGED <<ppc, perr>>
                    ELSE /\ MountReturn(MountResult(mount.device, target, FALSE))
                         /\ UNCHANGED <<mtab, pidx>>
    /\ UNCHANGED <<device, disks, meminfo, useEncryption, layout, mounts>>

\* mutant: no swap partition is activated
SwapOnNone(dev, parts, oks) == <<>>

\* the swapon commands of MountPartitions, each with its own outcome
SwapOn(dev, parts, oks) ==
    LET swaps == SelectSeq(parts, LAMBDA part : part.Filesystem = "swap")
    IN [k \in 1..Len(swaps) |->
          Cmd("swapon", <<getPartitionDevice(dev, swaps[k].Number)>>, k \in oks)]

\* after the mount loop: swap on every swap partition, return nil
MountFinish ==
    /\ ppc = "mount"
    /\ pidx > Len(mounts)
    /\ \E oks \in SUBSET (1..Len(SelectSeq(layout.Partitions, LAMBDA part : part.Filesystem = "swap"))) :
         cmds' = cmds \o SwapOn(device, layout.Partitions, oks)
    /\ MountReturn(Nil)
    /\ UNCHANGED <<device, disks, meminfo, useEncryption, layout, mounts, pidx, mtab>>

\* ------------------------------------------------------------- partition applier
\* utils.Unmount: what umount -R target leaves of the mount table
Unmounted(table, target, ok) ==
    IF ok THEN {t \in table : t # target /\ ~HasPrefix(t, target \o "/")} ELSE table

\* mutant: the error of the unmount is dropped like that of swapoff
UnmountIgnored(target, ok) == Nil

\* utils.Unmount's result for an umount -R that succeeded or failed
UnmountResult(target, ok) ==
    IF ok THEN Nil ELSE NewError("unmount", "failed to unmount " \o target, OSError)

\* Manager.UnmountPartitions: swapoff -a, its result discarded, then
\* utils.Unmount of the target root
UnmountPartitions ==
    /\ ppc \in {"idle", "mount_ret"}
    /\ \E swapoffOk \in BOOLEAN, ok \in BOOLEAN :
         /\ cmds' = << Cmd("swapoff", <<"-a">>, swapoffOk), Cmd("umount", UnmountArgs(TargetDir), ok) >>
         /\ mtab' = Unmounted(mtab, TargetDir, ok)
         /\ perr' = UnmountResult(TargetDir, ok)
    /\ mtab0' = mtab
    /\ ppc' = "unmount_ret"
    /\ UNCHANGED <<device, disks, meminfo, useEncryption, layout, mounts, pidx>>

\* utils.SyncFilesystems: sync, whose result is discarded
SyncFilesystems == Cmd("sync", <<>>, TRUE)

\* the unmount loop of WipeDisk from child k on: the commands it issues and
\* the mount table it leaves; oks are the children whose umount succeeds
RECURSIVE WipeUnmounts(_, _, _, _)
WipeUnmounts(children, oks, k, table) ==
    IF k > Len(children) THEN [cmds |-> <<>>, mtab |-> table]
    ELSE IF children[k].Mountpoint = "" THEN WipeUnmounts(children, oks, k + 1, table)
    ELSE LET rest == WipeUnmounts(children, oks, k + 1,
                                  Unmounted(table, children[k].Mountpoint, k \in oks))
         IN [cmds |-> <<Cmd("umount", UnmountArgs(children[k].Mountpoint), k \in oks)>> \o rest.cmds,
             mtab |-> rest.mtab]

\* mutant: the result of wipefs is discarded like that of dd
WipeGoesOn(wipefsOk) == FALSE

\* WipeDisk returns when wipefs failed: result.Error # nil
WipeAborts(wipefsOk) == ~wipefsOk

\* Manager.WipeDisk: the commands it issues, the mount table it leaves, its error;
\* the results of the two dd and of sync are discarded
WipeDisk(dev, lsblkOk, umountOks, wipefsOk) ==
    LET got == GetDisk(lsblkOk, dev)
        um == WipeUnmounts(got.disk.Children, umountOks, 1, mtab)
    IN IF got.err # Nil
       THEN [cmds |-> <<>>, mtab |-> mtab, err |-> got.err]
       ELSE IF WipeAborts(wipefsOk)
       THEN [cmds |-> um.cmds \o <<Cmd("wipefs", <<"-a", dev>>, wipefsOk)>>,
             mtab |-> um.mtab,
             err |-> NewError("partition", "failed to wipe disk signatures", OSError)]
       ELSE [cmds |-> um.cmds \o
                      << Cmd("wipefs", <<"-a", dev>>, wipefsOk),
                         Cmd("dd", <<"if=/dev/zero", "of=" \o dev, "bs=1M", "count=1", "status=none">>, TRUE),
                         Cmd("dd", <<"if=/dev/zero", "of=" \o dev, "bs=1M",
                                     "seek=" \o Itoa(got.disk.SizeMiB - 1), "count=1", "status=none">>, TRUE),
                         SyncFilesystems >>,
             mtab |-> um.mtab,
             err |-> Nil]

\* Manager.CreatePartitionTable
CreatePartitionTable(dev, scheme, ok) ==
    IF scheme \notin {"gpt", "mbr"}
    THEN [cmds |-> <<>>,
          err |-> NewError("partition", "unsupported partition scheme: " \o scheme, Nil)]
    ELSE LET label == IF scheme = "gpt" THEN "gpt" ELSE "msdos"
         IN [cmds |-> <<Cmd("parted", <<"-s", dev, "mklabel", label>>, ok)>>,
             err |-> IF ok THEN Nil
                     ELSE NewError("partition", "failed to create partition table", OSError)]

\* Manager.CreatePartition; flagOks are the flags parted manages to set
CreatePartition(dev, partNum, start, end, fstype, flags, ok, flagOks) ==
    LET args == <<"-s", dev, "mkpart", "primary">>
                  \o (IF fstype # "" /\ fstype # "none" THEN <<fstype>> ELSE <<>>)
                  \o <<start, end>>
    IN IF ~ok
       THEN [cmds |-> <<Cmd("parted", args, FALSE)>>,
             err |-> NewError("partition", "failed to create partition " \o Itoa(partNum), OSError)]
       ELSE [cmds |-> <<Cmd("parted", args, TRUE)>>
                      \o [k \in 1..Len(flags) |->
                            Cmd("parted", <<"-s", dev, "set", Itoa(partNum), flags[k], "on">>, k \in flagOks)]
                      \o <<SyncFilesystems>>,
             err |-> Nil]

\* strings.ToUpper of one character
UpperChar(c) ==
    IF \E k \in 1..26 : SubSeq("abcdefghijklmnopqrstuvwxyz", k, k) = c
    THEN LET k == CHOOSE j \in 1..26 : SubSeq("abcdefghijklmnopqrstuvwxyz", j, j) = c
         IN SubSeq("ABCDEFGHIJKLMNOPQRSTUVWXYZ", k, k)
    ELSE c

\* strings.ToUpper
RECURSIVE ToUpper(_)
ToUpper(str) ==
    IF str = "" THEN "" ELSE UpperChar(SubSeq(str, 1, 1)) \o ToUpper(SubSeq(str, 2, Len(str)))

\* the tool FormatPartition runs for a filesystem
FormatTool(fs) ==
    CASE fs = "ext4" -> "mkfs.ext4"
      [] fs = "btrfs" -> "mkfs.btrfs"
      [] fs = "xfs" -> "mkfs.xfs"
      [] fs = "f2fs" -> "mkfs.f2fs"
      [] fs = "fat32" -> "mkfs.vfat"
      [] fs = "swap" -> "mkswap"

\* the arguments FormatPartition hands to the tool
FormatArgs(dev, fs, label) ==
    CASE fs = "ext4" -> <<"-F">> \o (IF label # "" THEN <<"-L", label>> ELSE <<>>) \o <<dev>>
      [] fs \in {"btrfs", "xfs"} -> <<"-f">> \o (IF label # "" THEN <<"-L", label>> ELSE <<>>) \o <<dev>>
      [] fs = "f2fs" -> (IF label # "" THEN <<"-l", label>> ELSE <<>>) \o <<dev>>
      [] fs = "fat32" -> <<"-F", "32">> \o (IF label # "" THEN <<"-n", ToUpper(label)>> ELSE <<>>) \o <<dev>>
      [] fs = "swap" -> (IF label # "" THEN <<"-L", label>> ELSE <<>>) \o <<dev>>

\* Manager.FormatPartition
FormatPartition(dev, fs, label, ok) ==
    IF fs \in {"zfs", "none"}
    THEN [cmds |-> <<>>, err |-> Nil]
    ELSE IF fs \notin {"ext4", "btrfs", "xfs", "f2fs", "fat32", "swap"}
    THEN [cmds |-> <<>>, err |-> NewError("partition", "unsupported filesystem: " \o fs, Nil)]
    ELSE [cmds |-> <<Cmd(FormatTool(fs), FormatArgs(dev, fs, label), ok)>>,
          err |-> IF ok THEN Nil
                  ELSE NewError("partition", "failed to format " \o dev, OSError)]

\* mutant: the format loop skips no partition
SkipsFormatNever(part) == FALSE

\* the format loop of ApplyLayout skips encrypted partitions
SkipsFormat(part) == part.Encrypt

\* mutant: ApplyLayout goes on after an error
ApplyGoesOn(err) == FALSE

\* the if err != nil { return err } of ApplyLayout
ApplyFails(err) == err # Nil

\* Manager.ApplyLayout returns err
ApplyReturn(err) ==
    /\ ppc' = "apply_ret"
    /\ perr' = err

\* entry of Manager.ApplyLayout
ApplyEnter ==
    /\ ppc \in {"idle", "planned"}
    /\ ppc' = "wipe"
    /\ pidx' = 0
    /\ cmds' = <<>>
    /\ perr' = Nil
    /\ UNCHANGED <<device, disks, meminfo, useEncryption, layout, mounts, mtab>>

\* ApplyLayout: wipe the disk first
ApplyWipe ==
    /\ ppc = "wipe"
    /\ \E lsblkOk \in BOOLEAN, wipefsOk \in BOOLEAN :
       \E umountOks \in SUBSET {k \in 1..Len(GetDisk(lsblkOk, device).disk.Children) :
                                  GetDisk(lsblkOk, device).disk.Children[k].Mountpoint # ""} :
         LET r == WipeDisk(device, lsblkOk, umountOks, wipefsOk)
         IN /\ cmds' = cmds \o r.cmds
            /\ mtab' = r.mtab
            /\ IF ApplyFails(r.err)
               THEN ApplyReturn(r.err)
               ELSE ppc' = "table" /\ UNCHANGED perr
    /\ UNCHANGED <<device, disks, meminfo, useEncryption, layout, mounts, pidx>>

\* ApplyLayout: create the partition table
ApplyTable ==
    /\ ppc = "table"
    /\ \E ok \in BOOLEAN :
         LET r == CreatePartitionTable(device, layout.Scheme, ok)
         IN /\ cmds' = cmds \o r.cmds
            /\ IF ApplyFails(r.err)
               THEN ApplyReturn(r.err) /\ UNCHANGED pidx
               ELSE ppc' = "create" /\ pidx' = 1 /\ UNCHANGED perr
    /\ UNCHANGED <<device, disks, meminfo, useEncryption, layout, mounts, mtab>>

\* ApplyLayout: one iteration of the partition creation loop
ApplyCreate ==
    /\ ppc = "create"
    /\ pidx <= Len(layout.Partitions)
    /\ LET part == layout.Partitions[pidx]
           fstype == IF part.Filesystem = "fat32" THEN "fat32"
                     ELSE IF part.Filesystem = "swap" THEN "linux-swap" ELSE ""
       IN \E ok \in BOOLEAN, flagOks \in SUBSET (1..Len(part.Flags)) :
            LET r == CreatePartition(device, part.Number, part.Start, part.End, fstype,
                                     part.Flags, ok, flagOks)
            IN /\ cmds' = cmds \o r.cmds
               /\ IF ApplyFails(r.err)
                  THEN ApplyReturn(r.err) /\ UNCHANGED pidx
                  ELSE pidx' = pidx + 1 /\ UNCHANGED <<ppc, perr>>
    /\ UNCHANGED <<device, disks, meminfo, useEncryption, layout, mounts, mtab>>

\* ApplyLayout: wait for the device nodes; both results are discarded
ApplySettle ==
    /\ ppc = "create"
    /\ pidx > Len(layout.Partitions)
    /\ \E probeOk \in BOOLEAN, settleOk \in BOOLEAN :
         cmds' = cmds \o << Cmd("partprobe", <<device>>, probeOk),
                            Cmd("udevadm", <<"settle">>, settleOk) >>
    /\ ppc' = "format"
    /\ pidx' = 1
    /\ UNCHANGED <<device, disks, meminfo, useEncryption, layout, mounts, mtab, perr>>

\* ApplyLayout: one iteration of the format loop
ApplyFormat ==
    /\ ppc = "format"
    /\ pidx <= Len(layout.Partitions)
    /\ LET part == layout.Partitions[pidx]
           partDevice == getPartitionDevice(device, part.Number)
       IN IF SkipsFormat(part)
          THEN /\ pidx' = pidx + 1
               /\ UNCHANGED <<cmds, ppc, perr>>
          ELSE \E ok \in BOOLEAN :
                 LET r == FormatPartition(partDevice, part.Filesystem, part.Label, ok)
                 IN /\ cmds' = cmds \o r.cmds
                    /\ IF ApplyFails(r.err)
                       THEN ApplyReturn(r.err) /\ UNCHANGED pidx
                       ELSE pidx' = pidx + 1 /\ UNCHANGED <<ppc, perr>>
    /\ UNCHANGED <<device, disks, meminfo, useEncryption, layout, mounts, mtab>>

\* ApplyLayout: the format loop is over, return nil
ApplyFinish ==
    /\ ppc = "format"
    /\ pidx > Len(layout.Partitions)
    /\ ApplyReturn(Nil)
    /\ UNCHANGED <<device, disks, meminfo, useEncryption, layout, mounts, mtab, pidx, cmds>>

\* ------------------------------------------------------------- installer
\* the step functions of Installer.Install, in pipeline order
steps == <<"partitionDisk", "setupEncryption", "mountPartitions", "installStage3",
           "setupChroot", "configurePortage", "syncPortage", "setupOverlays",
           "installBasePackages", "installKernel", "installGraphics",
           "installDesktop", "setupUsers", "installBootloader", "finalize">>

\* Step.String
String(s) ==
    LET names == <<"Partitioning disk", "Setting up encryption", "Mounting partitions",
                   "Installing stage3", "Setting up chroot", "Configuring Portage",
                   "Syncing Portage tree", "Adding overlays", "Installing base packages",
                   "Installing kernel", "Configuring graphics", "Installing desktop",
                   "Creating users", "Installing bootloader", "Finalizing installation">>
    IN IF s < Len(names) THEN names[s + 1] ELSE "Unknown step"

\* the step functions modelled by their outcome alone
OpaqueSteps == {k \in 0..(Len(steps) - 1) : steps[k + 1] \notin {"setupChroot", "finalize"}}

\* Installer.SetProgressCallback with a callback
SetProgressCallback ==
    /\ ipc = "idle"
    /\ ~progressCb
    /\ progressCb' = TRUE
    /\ UNCHANGED <<ipc, step, currentStep, invoked, serr, result, outputCb, events, fops>>

\* Installer.SetOutputCallback with a callback
SetOutputCallback ==
    /\ ipc = "idle"
    /\ ~outputCb
    /\ outputCb' = TRUE
    /\ UNCHANGED <<ipc, step, currentStep, invoked, serr, result, progressCb, events, fops>>

\* Installer.progress: the callback, if there is one, is called with the
\* current step
progress(evs, cur, p, message) ==
    IF progressCb
    THEN Append(evs, [cb |-> "progress", step |-> cur, progress |-> p, message |-> message])
    ELSE evs

\* Installer.output
output(evs, line) ==
    IF outputCb THEN Append(evs, [cb |-> "output", line |-> line]) ELSE evs

\* what a call through a nil callback does to Install
Panic == [type |-> "panic", text |-> "invalid memory address or nil pointer dereference"]

\* mutant: progress calls the callback without the nil check
ProgressPanicsOnNil == ~progressCb

\* progress checks progressCb # nil before the call: it never panics
ProgressPanics == FALSE

\* Install is called on a new Installer
InstallEnter ==
    /\ ipc = "idle"
    /\ ipc' = "loop"
    /\ step' = 0
    /\ UNCHANGED <<currentStep, invoked, serr, result, progressCb, outputCb, events, fops>>

\* the top of an iteration of Install's loop: the step is recorded as the
\* current one and its start is reported
StartStep ==
    /\ ipc = "loop"
    /\ step < Len(steps)
    /\ currentStep' = step
    /\ IF ProgressPanics
       THEN /\ ipc' = "done"
            /\ result' = Panic
            /\ UNCHANGED events
       ELSE /\ events' = progress(events, currentStep', 0, "Starting: " \o String(currentStep'))
            /\ ipc' = "call"
            /\ UNCHANGED result
    /\ UNCHANGED <<step, invoked, serr, progressCb, outputCb, fops>>

\* the step function of the iteration is invoked
InvokeStep ==
    /\ ipc = "call"
    /\ step < Len(steps)
    /\ invoked' = Append(invoked, steps[step + 1])
    /\ UNCHANGED <<step, currentStep, result, progressCb, outputCb>>

\* the progress a step function reports when it begins and, if it has
\* such a report, when it has succeeded
StepProgress == <<
    [p |-> 10, first |-> "Creating partition layout", done |-> "Partitioning complete"],
    [p |-> 20, first |-> "Setting up LUKS encryption", done |-> "Encryption setup complete"],
    [p |-> 50, first |-> "Mounting partitions", done |-> "Partitions mounted"],
    [p |-> 10, first |-> "Finding latest stage3", done |-> "Stage3 installed"],
    [p |-> 50, first |-> "Mounting chroot filesystems", done |-> "Chroot ready"],
    [p |-> 20, first |-> "Generating make.conf", done |-> "Portage configured"],
    [p |-> 10, first |-> "Syncing Portage tree (this may take a while)", done |-> "Portage synced"],
    [p |-> 10, first |-> "Setting up overlays", done |-> "Overlays configured"],
    [p |-> 10, first |-> "Installing metalog (logging daemon)", done |-> ""],
    [p |-> 10, first |-> "Installing kernel", done |-> "Kernel installed"],
    [p |-> 10, first |-> "Installing graphics drivers", done |-> "Graphics drivers installed"],
    [p |-> 10, first |-> "Installing desktop environment", done |-> "Desktop environment installed"],
    [p |-> 20, first |-> "Setting up users", done |-> "Users configured"],
    [p |-> 20, first |-> "Installing bootloader", done |-> "Bootloader installed"] >>

\* the error of a step function that is modelled by its outcome
StepError(k) == NewError("installer", steps[k + 1] \o " failed", OSError)

\* the callback calls of such a step function that returns ok
StepEvents(evs, k, ok) ==
    LET sp == StepProgress[k + 1]
        begun == progress(evs, k, sp.p, sp.first)
        lines == IF steps[k + 1] = "installStage3" THEN output(begun, "Downloading stage3") ELSE begun
    IN IF ok /\ sp.done # "" THEN progress(lines, k, 100, sp.done) ELSE lines

\* an iteration over a step function that runs no chroot call: it returns
\* nil or an error
InstallStep ==
    /\ InvokeStep
    /\ step \in OpaqueSteps
    /\ \E ok \in BOOLEAN :
         /\ serr' = IF ok THEN Nil ELSE StepError(step)
         /\ events' = StepEvents(events, currentStep, ok)
    /\ ipc' = "ret"
    /\ UNCHANGED fops

\* setupChroot: a new Manager, and Setup begins
InstallSetupChroot ==
    /\ InvokeStep
    /\ steps[step + 1] = "setupChroot"
    /\ NewManager
    /\ events' = progress(events, currentStep, 50, "Mounting chroot filesystems")
    /\ SetupEnter
    /\ ipc' = "fn"
    /\ UNCHANGED <<isUEFI, mtab, serr, fops>>

\* setupChroot returns what Setup returned
SetupChrootReturn ==
    /\ ipc = "fn"
    /\ steps[currentStep + 1] = "setupChroot"
    /\ cpc = "setup_ret"
    /\ serr' = cerr
    /\ events' = IF cerr = Nil THEN progress(events, currentStep, 100, "Chroot ready") ELSE events
    /\ ipc' = "ret"
    /\ UNCHANGED <<step, currentStep, invoked, result, progressCb, outputCb, fops>>
    /\ UNCHANGED chrootVars

\* the sub-operations of finalize before the cleanup, with the progress
\* each is announced by
FinalizeOps == <<
    [op |-> "hostname", p |-> 10, message |-> "Setting hostname"],
    [op |-> "hosts", p |-> 20, message |-> "Configuring /etc/hosts"],
    [op |-> "timezone", p |-> 30, message |-> "Setting timezone"],
    [op |-> "locale", p |-> 40, message |-> "Configuring locale"],
    [op |-> "keymap", p |-> 50, message |-> "Configuring keymap"],
    [op |-> "fstab", p |-> 60, message |-> "Generating fstab"],
    [op |-> "services", p |-> 80, message |-> "Enabling services"] >>

\* mutant: every failure in finalize is returned
FinalizeFatalAll == {"hostname", "hosts", "timezone", "locale", "keymap", "fstab", "services"}

\* the writes of finalize whose failure finalize returns
FinalizeFatal == {"hostname", "hosts", "fstab"}

\* the errors utils.WriteFile returns: of MkdirAll, wrapped, or of os.WriteFile
WriteFileErrors == {Errorf("failed to create directory: ", OSError.text, OSError), OSError}

\* how a failure of a sub-operation is logged: by utils.Warn in finalize, or,
\* for the commands of enableServices, by the utils.Debug of RunCommand
FinalizeLog(op) == IF op = "services" THEN "debug" ELSE "warn"

\* finalize from sub-operation k on: the sub-operations it runs, the
\* callback calls it makes and the error it returns; failing are the
\* sub-operations that fail, with werr the error of a failing write
RECURSIVE FinalizeFrom(_, _, _, _, _)
FinalizeFrom(k, failing, werr, ops, evs) ==
    IF k > Len(FinalizeOps)
    THEN [fops |-> ops, events |-> progress(evs, currentStep, 90, "Cleaning up"), err |-> Nil]
    ELSE LET sub == FinalizeOps[k]
             ok == sub.op \notin failing
             evs1 == progress(evs, currentStep, sub.p, sub.message)
         IN IF ~ok /\ sub.op \in FinalizeFatal
            THEN [fops |-> Append(ops, [op |-> sub.op, ok |-> FALSE, log |-> ""]),
                  events |-> evs1, err |-> werr]
            ELSE FinalizeFrom(k + 1, failing, werr,
                              Append(ops, [op |-> sub.op, ok |-> ok,
                                           log |-> IF ok THEN "" ELSE FinalizeLog(sub.op)]),
                              evs1)

\* the sets of sub-operations that fail in one run of finalize: up to
\* MaxFailures of them, or all that finalize only logs
FinalizeFailures ==
    {F \in SUBSET {FinalizeOps[k].op : k \in 1..Len(FinalizeOps)} : Cardinality(F) <= MaxFailures}
        \cup {{"timezone", "locale", "keymap", "services"}}

\* finalize: the configuration sub-operations, then the cleanup, where
\* Teardown begins
InstallFinalize ==
    /\ InvokeStep
    /\ steps[step + 1] = "finalize"
    /\ \E failing \in FinalizeFailures, werr \in WriteFileErrors :
         LET r == FinalizeFrom(1, failing, werr, <<>>, events)
         IN /\ failing = {r.fops[k].op : k \in {j \in 1..Len(r.fops) : ~r.fops[j].ok}}
            /\ (r.err = Nil => werr = OSError)
            /\ fops' = r.fops
            /\ IF r.err = Nil /\ chrootManager
               THEN /\ events' = r.events
                    /\ TeardownEnter
                    /\ ipc' = "fn"
                    /\ UNCHANGED <<isUEFI, mtab, mounted, chrootManager, serr>>
               ELSE /\ serr' = r.err
                    /\ events' = IF r.err = Nil
                                 THEN progress(r.events, currentStep, 100, "Installation complete!")
                                 ELSE r.events
                    /\ ipc' = "ret"
                    /\ UNCHANGED chrootVars

\* finalize returns nil after Teardown and sync
FinalizeReturn ==
    /\ ipc = "fn"
    /\ steps[currentStep + 1] = "finalize"
    /\ cpc = "teardown_ret"
    /\ serr' = Nil
    /\ events' = progress(events, currentStep, 100, "Installation complete!")
    /\ ipc' = "ret"
    /\ UNCHANGED <<step, currentStep, invoked, result, progressCb, outputCb, fops>>
    /\ UNCHANGED chrootVars

\* mutant: Install records a failed step and goes on with the next one
StepReturnsAndGoesOn(err) ==
    /\ ipc' = "loop"
    /\ step' = step + 1
    /\ result' = IF err # Nil
                 THEN Errorf("step " \o String(currentStep) \o " failed: ", ErrorString(err), err)
                 ELSE result

\* mutant: the error names the step by the loop's next index
StepReturnsOffByOne(err) ==
    IF err # Nil
    THEN /\ result' = Errorf("step " \o String(currentStep + 1) \o " failed: ", ErrorString(err), err)
         /\ ipc' = "done"
         /\ UNCHANGED step
    ELSE /\ ipc' = "loop"
         /\ step' = step + 1
         /\ UNCHANGED result

\* Install after the step function of the current step returned err
StepReturns(err) ==
    IF err # Nil
    THEN /\ result' = Errorf("step " \o String(currentStep) \o " failed: ", ErrorString(err), err)
         /\ ipc' = "done"
         /\ UNCHANGED step
    ELSE /\ ipc' = "loop"
         /\ step' = step + 1
         /\ UNCHANGED result

\* mutant: the completion of a step is reported whatever it returned
CompletedAlways(err) == TRUE

\* the completion of a step is reported when its function returned nil
CompletedWhen(err) == err = Nil

\* the bottom of an iteration of Install's loop
InstallStepReturned ==
    /\ ipc = "ret"
    /\ StepReturns(serr)
    /\ events' = IF CompletedWhen(serr)
                 THEN progress(events, currentStep, 100, "Completed: " \o String(currentStep))
                 ELSE events
    /\ UNCHANGED <<currentStep, invoked, serr, progressCb, outputCb, fops>>

\* Install's loop is over: return nil
InstallReturn ==
    /\ ipc = "loop"
    /\ step >= Len(steps)
    /\ ipc' = "done"
    /\ result' = Nil
    /\ UNCHANGED <<step, currentStep, invoked, serr, progressCb, outputCb, events, fops>>

\* ------------------------------------------------------------- command output
\* bufio.MaxScanTokenSize, the buffer limit of the Scanner bufio.NewScanner makes
MaxScanTokenSize == 65536

Streams == {"stdout", "stderr"}

\* bufio.Scanner.Scan with ScanLines on a pipe whose next line has len
\* bytes before its newline: a line that does not fit the buffer with room
\* to spare stops the Scanner with ErrTooLong
ScanOk(len) == len < MaxScanTokenSize

\* RunCommandWithOutput up to the two go statements: StdoutPipe, StderrPipe
\* and Start, each of which may fail, then wg.Add(2)
RunStart ==
    /\ rpc.main = "idle"
    /\ \E ok \in BOOLEAN, failed \in {"failed to get stdout pipe: ", "failed to get stderr pipe: ",
                                      "failed to start command: "} :
         IF ok
         THEN /\ failed = "failed to start command: "
              /\ rpc' = [main |-> "wait", stdout |-> "scan", stderr |-> "scan"]
              /\ wg' = wg + 2
              /\ UNCHANGED rerr
         ELSE /\ rpc' = [rpc EXCEPT !.main = "returned"]
              /\ rerr' = Errorf(failed, OSError.text, OSError)
              /\ UNCHANGED wg
    /\ UNCHANGED <<callback, written, scanned, delivered>>

\* mutant: readPipe returns without wg.Done
DoneNever(counter) == counter

\* the deferred wg.Done of readPipe
Done(counter) == counter - 1

\* readPipe on stream s at the top of its loop: Scan, then the call of the
\* callback with the line if there is a callback; when Scan returns false,
\* at the end of the stream or at a line too long, readPipe returns and its
\* deferred wg.Done runs
ReadPipe(s) ==
    /\ rpc[s] = "scan"
    /\ IF scanned[s] < Len(written[s]) /\ ScanOk(written[s][scanned[s] + 1])
       THEN /\ scanned' = [scanned EXCEPT ![s] = @ + 1]
            /\ delivered' = IF callback
                            THEN Append(delivered, [stream |-> s, line |-> scanned[s] + 1,
                                                    returned |-> rpc.main = "returned"])
                            ELSE delivered
            /\ rpc' = IF callback THEN [rpc EXCEPT ![s] = "callback"] ELSE rpc
            /\ UNCHANGED wg
       ELSE /\ rpc' = [rpc EXCEPT ![s] = "done"]
            /\ wg' = Done(wg)
            /\ UNCHANGED <<scanned, delivered>>
    /\ UNCHANGED <<callback, written, rerr>>

\* the callback returns to the loop of readPipe on stream s
CallbackReturn(s) ==
    /\ rpc[s] = "callback"
    /\ rpc' = [rpc EXCEPT ![s] = "scan"]
    /\ UNCHANGED <<callback, written, scanned, delivered, rerr, wg>>

\* wg.Wait has returned; cmd.Wait returns the command's exit status, unless
\* the command is blocked writing to a pipe that its reader gave up
RunWait ==
    /\ rpc.main = "wait"
    /\ wg = 0
    /\ \E exit \in {Nil, OSError}, blocked \in BOOLEAN :
         /\ blocked => (exit = Nil /\ \E s \in Streams : scanned[s] < Len(written[s]))
         /\ rpc' = [rpc EXCEPT !.main = IF blocked THEN "blocked" ELSE "returned"]
         /\ rerr' = exit
    /\ UNCHANGED <<callback, written, scanned, delivered, wg>>

\* ------------------------------------------------------------- fstab
\* mutant: only the first substring is looked for
containsFirst(str, substrs) == Contains(str, substrs[1])

\* installer.containsAny: the loops over the substrings and the offsets
containsAny(str, substrs) ==
    \E j \in 1..Len(substrs) :
        /\ Len(str) >= Len(substrs[j])
        /\ \E i \in 0..(Len(str) - Len(substrs[j])) :
             SubSeq(str, i + 1, i + Len(substrs[j])) = substrs[j]

\* installer.getPartitionDevice
installer_getPartitionDevice(disk, partNum) ==
    IF containsAny(disk, <<"nvme", "mmcblk">>)
    THEN disk \o "p" \o Itoa(partNum)
    ELSE disk \o Itoa(partNum)

\* strings.TrimSpace
RECURSIVE TrimSpace(_)
TrimSpace(str) ==
    LET space == {" ", "\t", "\n", "\r"}
    IN IF str = "" THEN ""
       ELSE IF SubSeq(str, 1, 1) \in space THEN TrimSpace(SubSeq(str, 2, Len(str)))
       ELSE IF SubSeq(str, Len(str), Len(str)) \in space THEN TrimSpace(SubSeq(str, 1, Len(str) - 1))
       ELSE str

\* mutant: the device path is written whether or not blkid printed a UUID
FileSystemNoUUID(dev, uuid) == dev

\* the first field of a line of fstab
FileSystem(dev, uuid) == IF uuid # "" THEN "UUID=" \o uuid ELSE dev

\* the line generateFstab writes for a partition that has a mount point
FstabLine(dev, part, uuid) ==
    LET fsType == IF part.Filesystem = "fat32" THEN "vfat" ELSE part.Filesystem
        options == IF part.MountPoint \in {"/", "/home"} THEN "defaults,noatime"
                   ELSE IF part.MountPoint = "/boot" /\ part.Filesystem = "fat32"
                   THEN "defaults,umask=0077"
                   ELSE "defaults"
        pass == IF part.MountPoint = "/" THEN "1"
                ELSE IF part.MountPoint \in {"/boot", "/home"} THEN "2" ELSE "0"
    IN FileSystem(dev, uuid) \o "\t" \o part.MountPoint \o "\t" \o fsType \o "\t"
         \o options \o "\t" \o "0" \o "\t" \o pass \o "\n"

\* what generateFstab writes to the strings.Builder and the blkid commands
\* it runs: the header, the loop over the mount points, the loop over swap
generateFstab(dev, parts, out) ==
    LET withMP == SelectSeq(parts, LAMBDA part : part.MountPoint # "")
        swaps == SelectSeq(parts, LAMBDA part : part.Filesystem = "swap")
        devOf(part) == installer_getPartitionDevice(dev, part.Number)
        uuidOf(part) == TrimSpace(out[part.Number])
        probe(part) == Cmd("blkid", <<"-s", "UUID", "-o", "value", devOf(part)>>, uuidOf(part) # "")
    IN [text |-> << "# /etc/fstab: static file system information.\n",
                    "# <file system> <mount point> <type> <options> <dump> <pass>\n\n" >>
                   \o [k \in 1..Len(withMP) |-> FstabLine(devOf(withMP[k]), withMP[k], uuidOf(withMP[k]))]
                   \o [k \in 1..Len(swaps) |->
                         FileSystem(devOf(swaps[k]), uuidOf(swaps[k])) \o "\tnone\tswap\tsw\t0\t0\n"],
        cmds |-> [k \in 1..Len(withMP) |-> probe(withMP[k])]
                   \o [k \in 1..Len(swaps) |-> probe(swaps[k])]]

\* Installer.generateFstab: build the text, then utils.WriteFile
GenerateFstab ==
    /\ ipc = "idle"
    /\ LET r == generateFstab(device, layout.Partitions, blkid)
       IN /\ cmds' = r.cmds
          /\ \E werr \in WriteFileErrors \cup {Nil} :
               /\ serr' = werr
               /\ fstab' = IF werr = Nil THEN r.text ELSE fstab
    /\ ipc' = "ret"
    /\ UNCHANGED <<step, currentStep, invoked, result, progressCb, outputCb, events, fops>>
    /\ UNCHANGED blkid

\* ------------------------------------------------------------- stage3
\* info.Filename of the stage3 tarball found
Tarball == "stage3-amd64-openrc.tar.xz"

\* hex.EncodeToString of the SHA256 of the downloaded tarball
ActualHash == "9f2c"

\* the expected checksum VerifyChecksum takes from the digests: the first
\* field of the first line that contains the file name and is 64 bytes or
\* longer, "" if there is no such line
ExpectedHash(digests) ==
    LET hits == SelectSeq(digests, LAMBDA line : Contains(line.text, Tarball) /\ line.len >= 64)
    IN IF hits = <<>> THEN "" ELSE hits[1].hash

\* mutant: the hashes are compared but a difference is only reported
ChecksumIgnored(expectedHash, actualHash) == Nil

\* the comparison of VerifyChecksum: strings.EqualFold, else the mismatch error
ChecksumResult(expectedHash, actualHash) ==
    IF ToUpper(actualHash) = ToUpper(expectedHash) THEN Nil
    ELSE NewError("stage3", "checksum mismatch: expected " \o expectedHash \o ", got " \o actualHash, Nil)

\* stage3.Manager.Install returns err
Stage3Return(err) ==
    /\ s3pc' = "ret"
    /\ s3err' = err

\* Install: GetLatestStage3, then Download, which takes the tarball from the
\* cache when a file of its name is there
Stage3Fetch ==
    /\ s3pc = "idle"
    /\ \E latestOk \in BOOLEAN, how \in {"cached", "downloaded", "no cache directory", "failed"} :
         IF ~latestOk
         THEN /\ how = "cached"
              /\ s3log' = Append(s3log, [op |-> "latest", ok |-> FALSE])
              /\ Stage3Return(NewError("stage3", "no stage3 tarball found", Nil))
         ELSE /\ s3log' = s3log \o << [op |-> "latest", ok |-> TRUE],
                                      [op |-> "download", how |-> how, ok |-> how \in {"cached", "downloaded"}] >>
              /\ IF how \in {"cached", "downloaded"}
                 THEN s3pc' = "checksum" /\ UNCHANGED s3err
                 ELSE IF how = "failed"
                 THEN Stage3Return(OSError)
                 ELSE Stage3Return(NewError("stage3", "failed to create cache directory", OSError))

\* Install: VerifyChecksum; fetched is the digests file that could be
\* fetched, if any, and digests are its lines
Stage3VerifyChecksum(digestSamples) ==
    /\ s3pc = "checksum"
    /\ \E fetched \in {".sha256", ".DIGESTS", ""}, digests \in digestSamples,
          openOk \in BOOLEAN, copyOk \in BOOLEAN :
         LET expectedHash == ExpectedHash(digests)
             err == IF fetched = "" \/ expectedHash = "" THEN Nil
                    ELSE IF ~openOk THEN NewError("stage3", "failed to open tarball", OSError)
                    ELSE IF ~copyOk THEN NewError("stage3", "failed to calculate checksum", OSError)
                    ELSE ChecksumResult(expectedHash, ActualHash)
         IN /\ fetched = "" => digests = <<>>
            /\ (fetched = "" \/ expectedHash = "") => openOk
            /\ (fetched = "" \/ expectedHash = "" \/ ~openOk) => copyOk
            /\ s3log' = Append(s3log, [op |-> "checksum", fetched |-> fetched, digests |-> digests,
                                       outcome |-> IF fetched = "" \/ expectedHash = "" THEN "skipped"
                                                   ELSE IF ~openOk THEN "not opened"
                                                   ELSE IF ~copyOk THEN "not hashed"
                                                   ELSE "compared"])
            /\ IF err # Nil THEN Stage3Return(err) ELSE s3pc' = "gpg" /\ UNCHANGED s3err

\* Install: VerifyGPG, which returns nil on every path and whose result
\* Install discards
Stage3VerifyGPG ==
    /\ s3pc = "gpg"
    /\ \E sigOk \in BOOLEAN, importOk \in BOOLEAN, verifyOk \in BOOLEAN :
         /\ ~sigOk => (importOk /\ verifyOk)
         /\ s3log' = Append(s3log, [op |-> "gpg", signature |-> sigOk,
                                    import |-> sigOk /\ importOk, verified |-> sigOk /\ verifyOk])
    /\ s3pc' = "extract"
    /\ UNCHANGED s3err

\* Install: Extract
Stage3Extract ==
    /\ s3pc = "extract"
    /\ \E mkdirOk \in BOOLEAN, tarOk \in BOOLEAN :
         IF ~mkdirOk
         THEN /\ tarOk
              /\ Stage3Return(NewError("stage3", "failed to create target directory", OSError))
              /\ UNCHANGED s3log
         ELSE /\ s3log' = Append(s3log, [op |-> "extract", ok |-> tarOk])
              /\ Stage3Return(IF tarOk THEN Nil
                              ELSE NewError("extract", "failed to extract " \o Tarball, OSError))

\* ------------------------------------------------------------- yuno-use
\* the default of config.PackageUseDir
PackageUseDir == "/etc/portage/package.use"

\* config.KeywordsDir
KeywordsDir == "/etc/portage/package.accept_keywords"

LowerChar(c) ==
    IF \E k \in 1..26 : SubSeq("ABCDEFGHIJKLMNOPQRSTUVWXYZ", k, k) = c
    THEN LET k == CHOOSE j \in 1..26 : SubSeq("ABCDEFGHIJKLMNOPQRSTUVWXYZ", j, j) = c
         IN SubSeq("abcdefghijklmnopqrstuvwxyz", k, k)
    ELSE c

\* strings.ToLower
RECURSIVE ToLower(_)
ToLower(str) ==
    IF str = "" THEN "" ELSE LowerChar(SubSeq(str, 1, 1)) \o ToLower(SubSeq(str, 2, Len(str)))

\* strings.TrimPrefix
TrimPrefix(str, prefix) ==
    IF HasPrefix(str, prefix) THEN SubSeq(str, Len(prefix) + 1, Len(str)) ELSE str

\* strings.Join
RECURSIVE StringsJoin(_, _)
StringsJoin(elems, sep) ==
    IF elems = <<>> THEN ""
    ELSE IF Len(elems) = 1 THEN elems[1]
    ELSE elems[1] \o sep \o StringsJoin(Tail(elems), sep)

\* strings.Split(str, "\n")
RECURSIVE SplitLines(_)
SplitLines(str) ==
    IF \E k \in 1..Len(str) : SubSeq(str, k, k) = "\n"
    THEN LET k == CHOOSE j \in 1..Len(str) :
                      SubSeq(str, j, j) = "\n" /\ \A h \in 1..(j - 1) : SubSeq(str, h, h) # "\n"
         IN <<SubSeq(str, 1, k - 1)>> \o SplitLines(SubSeq(str, k + 1, Len(str)))
    ELSE <<str>>

\* sanitizeFilename: the atom without its constraint, its category and its
\* version, in lower case
sanitizeFilename(atom) ==
    LET unprefixed == TrimPrefix(TrimPrefix(TrimPrefix(TrimPrefix(TrimPrefix(TrimPrefix(
                          atom, ">="), "<="), ">"), "<"), "="), "~")
        slashes == {k \in 1..Len(unprefixed) : SubSeq(unprefixed, k, k) = "/"}
        idx == CHOOSE k \in slashes : \A j \in slashes : k <= j
        name == IF slashes = {} THEN unprefixed ELSE SubSeq(unprefixed, idx + 1, Len(unprefixed))
        digits == {"0", "1", "2", "3", "4", "5", "6", "7", "8", "9"}
        cuts == {k \in 1..(Len(name) - 1) : SubSeq(name, k, k) = "-" /\ SubSeq(name, k + 1, k + 1) \in digits}
        cut == CHOOSE k \in cuts : \A j \in cuts : k <= j
    IN ToLower(IF cuts = {} THEN name ELSE SubSeq(name, 1, cut - 1))

\* fileContainsLine: false when the file cannot be read
fileContainsLine(fs, path, line) ==
    /\ path \in DOMAIN fs.content
    /\ \E l \in Range(SplitLines(fs.content[path])) : TrimSpace(l) = TrimSpace(line)

\* os.OpenFile(path, O_APPEND|O_CREATE|O_WRONLY) in a directory of the given
\* kind and WriteString(line + "\n"); fail names the call that fails
appendLine(fs, kind, path, line, fail) ==
    LET old == IF path \in DOMAIN fs.content THEN fs.content[path] ELSE ""
    IN IF kind # "dir" \/ fail = "open" THEN [fs |-> fs, said |-> "Failed to open " \o path]
       ELSE IF fail = "write"
       THEN [fs |-> [fs EXCEPT !.content = (path :> old) @@ @], said |-> "Failed to write to " \o path]
       ELSE [fs |-> [fs EXCEPT !.content = (path :> (old \o line \o "\n")) @@ @], said |-> "Added!"]

\* ensurePackageUseDir: the file system it leaves and the error it returns
ensurePackageUseDir(fs, dryRun, fail) ==
    LET keywords(f) ==
            IF f.keywords = "missing" /\ ~dryRun /\ fail # "mkdir keywords"
            THEN [f EXCEPT !.keywords = "dir"] ELSE f
        removed == [fs EXCEPT !.packageUse = "missing",
                              !.content = [q \in DOMAIN @ \ {PackageUseDir} |-> @[q]]]
        made == [removed EXCEPT !.packageUse = "dir"]
        legacy == [made EXCEPT !.content = (Join(PackageUseDir, "legacy") :> fs.content[PackageUseDir]) @@ @]
    IN IF fs.packageUse = "file"
       THEN IF dryRun THEN [fs |-> fs, err |-> Nil]
            ELSE IF fail \in {"read", "remove"} THEN [fs |-> fs, err |-> OSError]
            ELSE IF fail = "mkdir" THEN [fs |-> removed, err |-> OSError]
            ELSE IF fail = "write" THEN [fs |-> made, err |-> OSError]
            ELSE [fs |-> keywords(legacy), err |-> Nil]
       ELSE IF fs.packageUse = "missing"
       THEN IF dryRun THEN [fs |-> fs, err |-> Nil]
            ELSE IF fail = "mkdir" THEN [fs |-> fs, err |-> OSError]
            ELSE [fs |-> keywords([fs EXCEPT !.packageUse = "dir"]), err |-> Nil]
       ELSE [fs |-> keywords(fs), err |-> Nil]

\* mutant: the requirement is written in dry-run mode too
processUseRequirementAlways(fs, req, dryRun, fail) ==
    appendLine(fs, fs.packageUse, Join(PackageUseDir, sanitizeFilename(req.Atom) \o ".use"),
               req.Atom \o " " \o StringsJoin(req.Flags, " "), fail)

\* processUseRequirement: the file system it leaves and what it prints last
processUseRequirement(fs, req, dryRun, fail) ==
    LET useFile == Join(PackageUseDir, sanitizeFilename(req.Atom) \o ".use")
        useLine == req.Atom \o " " \o StringsJoin(req.Flags, " ")
    IN IF dryRun THEN [fs |-> fs, said |-> "Would add: " \o useLine]
       ELSE IF fileContainsLine(fs, useFile, useLine) THEN [fs |-> fs, said |-> "Already exists!"]
       ELSE appendLine(fs, fs.packageUse, useFile, useLine, fail)

\* processKeywordRequirement: the file system it leaves and what it prints last
processKeywordRequirement(fs, req, dryRun, fail) ==
    LET keywordFile == Join(KeywordsDir, sanitizeFilename(req.Atom) \o ".accept_keywords")
        keywordLine == req.Atom \o " " \o req.Keyword
        ensured == IF fs.keywords = "missing" /\ fail # "mkdir" THEN [fs EXCEPT !.keywords = "dir"] ELSE fs
    IN IF dryRun THEN [fs |-> fs, said |-> "Would add: " \o keywordLine]
       ELSE IF fileContainsLine(fs, keywordFile, keywordLine) THEN [fs |-> fs, said |-> "Already exists!"]
       ELSE appendLine(ensured, ensured.keywords, keywordFile, keywordLine, fail)

\* main up to the parsing of its input: the root check, then
\* ensurePackageUseDir
UseStart ==
    /\ ypc = "idle"
    /\ \E root \in BOOLEAN, fail \in {"none", "read", "remove", "mkdir", "write", "mkdir keywords"} :
         IF ~config.DryRun /\ ~root
         THEN /\ fail = "none"
              /\ ypc' = "exit"
              /\ UNCHANGED files
         ELSE LET ensured == ensurePackageUseDir(files, config.DryRun, fail)
              IN /\ files' = ensured.fs
                 /\ ypc' = IF ensured.err # Nil THEN "exit" ELSE "reqs"
    /\ UNCHANGED <<config, files0, useReqs, keywordReqs, yi, printed, yrun, files1, printed1>>

\* main: the loop over the USE requirements
UseProcessUse ==
    /\ ypc = "reqs"
    /\ yi < Len(useReqs)
    /\ \E fail \in {"none", "open", "write"} :
         LET done == processUseRequirement(files, useReqs[yi + 1], config.DryRun, fail)
         IN /\ files' = done.fs
            /\ printed' = Append(printed, done.said)
    /\ yi' = yi + 1
    /\ UNCHANGED <<config, files0, useReqs, keywordReqs, ypc, yrun, files1, printed1>>

\* main: the loop over the keyword requirements
UseProcessKeyword ==
    /\ ypc = "reqs"
    /\ yi >= Len(useReqs)
    /\ yi < Len(useReqs) + Len(keywordReqs)
    /\ \E fail \in {"none", "mkdir", "open", "write"} :
         LET done == processKeywordRequirement(files, keywordReqs[yi - Len(useReqs) + 1], config.DryRun, fail)
         IN /\ files' = done.fs
            /\ printed' = Append(printed, done.said)
    /\ yi' = yi + 1
    /\ UNCHANGED <<config, files0, useReqs, keywordReqs, ypc, yrun, files1, printed1>>

\* main: the closing message
UseFinish ==
    /\ ypc = "reqs"
    /\ yi = Len(useReqs) + Len(keywordReqs)
    /\ ypc' = "done"
    /\ UNCHANGED <<config, files, files0, useReqs, keywordReqs, yi, printed, yrun, files1, printed1>>

\* yuno-use is started again with the same flags and the same input
UseRerun ==
    /\ ypc = "done"
    /\ yrun = 1
    /\ yrun' = 2
    /\ files1' = files
    /\ printed1' = printed
    /\ ypc' = "idle"
    /\ yi' = 0
    /\ printed' = <<>>
    /\ UNCHANGED <<config, files, files0, useReqs, keywordReqs>>

\* ------------------------------------------------------------- installer: disk steps
\* partitionDisk up to the return of CreateAutoLayout
InstallPartitionDisk ==
    /\ InvokeStep
    /\ steps[step + 1] = "partitionDisk"
    /\ events' = progress(events, currentStep, 10, "Creating partition layout")
    /\ PlanLayout
    /\ ipc' = "fn"
    /\ UNCHANGED <<serr, fops>>

\* partitionDisk: the layout is kept and ApplyLayout begins
PartitionDiskApply ==
    /\ ipc = "fn"
    /\ ppc = "planned"
    /\ perr = Nil
    /\ events' = progress(events, currentStep, 30, "Applying partition layout")
    /\ ApplyEnter
    /\ UNCHANGED <<ipc, step, currentStep, invoked, serr, result, progressCb, outputCb, fops>>

\* partitionDisk returns the error of CreateAutoLayout or what ApplyLayout
\* returned
PartitionDiskReturn ==
    /\ ipc = "fn"
    /\ steps[currentStep + 1] = "partitionDisk"
    /\ (ppc = "planned" /\ perr # Nil) \/ ppc = "apply_ret"
    /\ serr' = perr
    /\ events' = IF perr = Nil THEN progress(events, currentStep, 100, "Partitioning complete") ELSE events
    /\ ipc' = "ret"
    /\ UNCHANGED <<step, currentStep, invoked, result, progressCb, outputCb, fops>>

\* config.Encryption.Type when encryption is configured
EncryptionTypes == {"luks", "luks2", "zfs", "dm-crypt"}

\* runWithStdin: sh -c "echo -n '<password>' | <name> <args>"
runWithStdin(input, name, args, ok) ==
    Cmd("sh", <<"-c", "echo -n '" \o input \o "' | " \o name \o " " \o StringsJoin(args, " ")>>, ok)

\* encryption.Manager.SetupLUKS with the default cipher, key size and hash;
\* fail names the call that fails
SetupLUKS(type, dev, name, password, fail) ==
    LET luksType == IF type = "luks" THEN "luks1" ELSE "luks2"
        format == runWithStdin(password, "cryptsetup",
                               <<"luksFormat", "--type", luksType, "--batch-mode", "--cipher",
                                 "aes-xts-plain64", "--key-size", "512", "--hash", "sha256", dev>>,
                               fail # "luksFormat")
        open == runWithStdin(password, "cryptsetup", <<"luksOpen", dev, name>>, fail # "luksOpen")
    IN IF fail = "luksFormat"
       THEN [cmds |-> <<format>>, err |-> NewError("encryption", "failed to format LUKS device", OSError)]
       ELSE IF fail = "luksOpen"
       THEN [cmds |-> <<format, open>>, err |-> NewError("encryption", "failed to open LUKS device", OSError)]
       ELSE IF fail = "mapped"
       THEN [cmds |-> <<format, open>>,
             err |-> NewError("encryption", "mapped device " \o Join("/dev/mapper", name) \o " not found", Nil)]
       ELSE [cmds |-> <<format, open>>, err |-> Nil]

\* the loop of setupEncryption over the partitions from the k-th on; fails
\* gives the failing call of each SetupLUKS
RECURSIVE EncryptFrom(_, _, _, _)
EncryptFrom(k, type, fails, done) ==
    IF k > Len(layout.Partitions) THEN [cmds |-> done, err |-> Nil]
    ELSE IF ~layout.Partitions[k].Encrypt THEN EncryptFrom(k + 1, type, fails, done)
    ELSE LET r == SetupLUKS(type, installer_getPartitionDevice(device, layout.Partitions[k].Number),
                            "cryptroot", "secret", fails[k])
         IN IF r.err # Nil THEN [cmds |-> done \o r.cmds, err |-> r.err]
            ELSE EncryptFrom(k + 1, type, fails, done \o r.cmds)

\* setupEncryption
InstallSetupEncryption ==
    /\ InvokeStep
    /\ steps[step + 1] = "setupEncryption"
    /\ IF ~useEncryption
       THEN /\ events' = progress(events, currentStep, 100, "Encryption not configured")
            /\ cmds' = <<>>
            /\ serr' = Nil
       ELSE \E type \in EncryptionTypes,
               fails \in [1..Len(layout.Partitions) -> {"none", "luksFormat", "luksOpen", "mapped"}] :
              LET r == EncryptFrom(1, type, fails, <<>>)
              IN /\ \A k \in 1..Len(fails) : ~layout.Partitions[k].Encrypt => fails[k] = "none"
                 /\ cmds' = r.cmds
                 /\ serr' = r.err
                 /\ events' = IF r.err = Nil
                              THEN progress(progress(events, currentStep, 20, "Setting up LUKS encryption"),
                                            currentStep, 100, "Encryption setup complete")
                              ELSE progress(events, currentStep, 20, "Setting up LUKS encryption")
    /\ ipc' = "ret"
    /\ UNCHANGED fops

\* mountPartitions: MountPartitions begins on the layout partitionDisk kept
InstallMountPartitions ==
    /\ InvokeStep
    /\ steps[step + 1] = "mountPartitions"
    /\ events' = progress(events, currentStep, 50, "Mounting partitions")
    /\ MountEnter
    /\ ipc' = "fn"
    /\ UNCHANGED <<serr, fops>>

\* mountPartitions returns what MountPartitions returned
MountPartitionsReturn ==
    /\ ipc = "fn"
    /\ steps[currentStep + 1] = "mountPartitions"
    /\ ppc = "mount_ret"
    /\ serr' = perr
    /\ events' = IF perr = Nil THEN progress(events, currentStep, 100, "Partitions mounted") ELSE events
    /\ ipc' = "ret"
    /\ UNCHANGED <<step, currentStep, invoked, result, progressCb, outputCb, fops>>

\* the commands a step adds to those issued since Install was called
Logged(A) ==
    /\ A
    /\ dlog' = dlog \o (IF Len(cmds') >= Len(cmds) /\ SubSeq(cmds', 1, Len(cmds)) = cmds
                        THEN SubSeq(cmds', Len(cmds) + 1, Len(cmds'))
                        ELSE cmds')

\* ------------------------------------------------------------- tui
\* the Screen constants, in the order of their declaration
Screen ==
    << "Welcome", "Disk", "Partition", "Encryption", "InitSystem", "Overlays", "CFlags", "UseFlags",
       "Kernel", "Graphics", "Desktop", "Packages", "SecureBoot", "Timezone", "Users", "Summary",
       "Install", "Complete" >>

ScreenWelcome == 0
ScreenDisk == 1
ScreenUsers == 14
ScreenSummary == 15
ScreenInstall == 16
ScreenComplete == 17

\* the Installation Steps of the README
InstallationSteps ==
    << "Welcome", "Disk Selection", "Partitioning", "Encryption", "Init System (OpenRC/systemd)",
       "Overlays", "Compiler Flags", "USE Flags", "Kernel Selection", "Graphics Drivers",
       "Desktop Environment", "Package Preferences", "Secure Boot", "Timezone & Locale",
       "User Accounts", "Summary", "Installation", "Complete!" >>

\* fmt.Errorf without %w
NewErrorString(text) == [type |-> "errorString", text |-> text]

\* the disks detectDisks reports
MockDisks ==
    << [Path |-> "/dev/sda", Size |-> "500GB", Model |-> "Samsung SSD"],
       [Path |-> "/dev/nvme0n1", Size |-> "1TB", Model |-> "NVMe Drive"] >>

\* NewApp; RootPassword and Device are the fields of config.NewDefaultConfig()
\* that the App reads or writes
NewApp ==
    [screen |-> ScreenWelcome, err |-> Nil, diskList |-> <<>>, selectedDisk |-> 0, focusIndex |-> 0,
     RootPassword |-> "", Device |-> "", width |-> 0, height |-> 0]

\* mutant: every screen validates
validateNothing(a) == Nil

\* App.validateCurrentScreen
validateCurrentScreen(a) ==
    IF a.screen = ScreenDisk
    THEN IF Len(a.diskList) = 0 THEN NewErrorString("no disks available")
         ELSE IF a.selectedDisk >= Len(a.diskList) THEN NewErrorString("please select a disk")
         ELSE Nil
    ELSE IF a.screen = ScreenUsers
    THEN IF a.RootPassword = "" THEN NewErrorString("root password is required") ELSE Nil
    ELSE Nil

\* App.saveScreenToConfig
saveScreenToConfig(a) ==
    IF a.screen = ScreenDisk /\ a.selectedDisk < Len(a.diskList)
    THEN [a EXCEPT !.Device = a.diskList[a.selectedDisk + 1].Path]
    ELSE a

\* App.nextScreen: the model and the command it returns
nextScreen(a) ==
    LET err == validateCurrentScreen(a)
        saved == saveScreenToConfig(a)
        moved == IF saved.screen < ScreenComplete
                 THEN [saved EXCEPT !.screen = @ + 1, !.focusIndex = 0, !.err = Nil]
                 ELSE saved
    IN IF err # Nil THEN [app |-> [a EXCEPT !.err = err], cmd |-> "nil"]
       ELSE [app |-> moved, cmd |-> IF moved.screen = ScreenInstall THEN "startInstallation" ELSE "nil"]

\* App.prevScreen
prevScreen(a) ==
    IF a.screen > ScreenWelcome /\ a.screen # ScreenInstall
    THEN [app |-> [a EXCEPT !.screen = @ - 1, !.focusIndex = 0, !.err = Nil], cmd |-> "nil"]
    ELSE [app |-> a, cmd |-> "nil"]

\* the keys handleKeyPress tells apart, and one it does not
Keys == {"ctrl+c", "q", "enter", "esc", "backspace", "up", "k", "down", "j", "tab", "x"}

\* App.handleKeyPress
handleKeyPress(a, msg) ==
    CASE msg \in {"ctrl+c", "q"} -> [app |-> a, cmd |-> "tea.Quit"]
      [] msg = "enter" -> nextScreen(a)
      [] msg \in {"esc", "backspace"} -> prevScreen(a)
      [] msg \in {"up", "k"} ->
            [app |-> IF a.focusIndex > 0 THEN [a EXCEPT !.focusIndex = @ - 1] ELSE a, cmd |-> "nil"]
      [] msg \in {"down", "j", "tab"} -> [app |-> [a EXCEPT !.focusIndex = @ + 1], cmd |-> "nil"]
      [] OTHER -> [app |-> a, cmd |-> "nil"]

\* the messages the runtime hands to Update: key presses, window sizes and
\* what the commands of the App return (startInstallation returns nil, which
\* is no message; nothing returns an errMsg)
WindowSizes == {<<80, 24>>, <<120, 40>>}

Messages ==
    {[type |-> "tea.KeyMsg", key |-> k] : k \in Keys}
    \cup {[type |-> "tea.WindowSizeMsg", Width |-> wh[1], Height |-> wh[2]] : wh \in WindowSizes}
    \cup {[type |-> "disksDetectedMsg", disks |-> MockDisks]}

\* App.Update: the model and the command it returns
Update(a, msg) ==
    CASE msg.type = "tea.KeyMsg" -> handleKeyPress(a, msg.key)
      [] msg.type = "tea.WindowSizeMsg" ->
            [app |-> [a EXCEPT !.width = msg.Width, !.height = msg.Height], cmd |-> "nil"]
      [] msg.type = "disksDetectedMsg" -> [app |-> [a EXCEPT !.diskList = msg.disks], cmd |-> "nil"]
      [] OTHER -> [app |-> a, cmd |-> "nil"]

\* the runtime hands msg to Update and takes the command it returns; after
\* tea.Quit it hands over nothing more
Handle(msg) ==
    LET next == Update(app, msg)
    IN /\ "tea.Quit" \notin Range(tcmds)
       /\ next.app.focusIndex <= MaxFocus
       /\ app' = next.app
       /\ tcmds' = IF next.cmd = "nil" THEN tcmds ELSE Append(tcmds, next.cmd)
       /\ key' = msg

\* a key is pressed
TuiKey ==
    /\ \E k \in Keys : Handle([type |-> "tea.KeyMsg", key |-> k])
    /\ UNCHANGED pending

\* the terminal is resized
TuiResize ==
    /\ \E wh \in WindowSizes : Handle([type |-> "tea.WindowSizeMsg", Width |-> wh[1], Height |-> wh[2]])
    /\ UNCHANGED pending

\* the message of a command arrives
TuiDeliver ==
    /\ \E msg \in pending :
         /\ Handle(msg)
         /\ pending' = pending \ {msg}

\* before the program is started
TuiIdle ==
    /\ app = NewApp
    /\ pending = {}
    /\ tcmds = <<>>
    /\ key = [type |-> "none"]

\* ------------------------------------------------------------- specifications
\* the Installer NewInstaller returns, before Install is called
InstIdle ==
    /\ ipc = "idle"
    /\ step = 0
    /\ currentStep = 0
    /\ invoked = <<>>
    /\ serr = Nil
    /\ result = Nil
    /\ progressCb = FALSE
    /\ outputCb = FALSE
    /\ events = <<>>
    /\ fops = <<>>
    /\ tape = <<>>
    /\ run = 1
    /\ first = [mtab |-> mtab, cbs |-> <<FALSE, FALSE>>, tape |-> <<>>, invoked |-> <<>>, result |-> Nil]

\* before RunCommandWithOutput is called
PipeIdle ==
    /\ callback = FALSE
    /\ written = [s \in Streams |-> <<>>]
    /\ scanned = [s \in Streams |-> 0]
    /\ rpc = [main |-> "idle", stdout |-> "idle", stderr |-> "idle"]
    /\ delivered = <<>>
    /\ rerr = Nil
    /\ wg = 0

\* before generateFstab is called
FstabIdle ==
    /\ blkid = <<>>
    /\ fstab = <<>>

\* before stage3.Manager.Install is called
Stage3Idle ==
    /\ s3pc = "idle"
    /\ s3log = <<>>
    /\ s3err = Nil

\* before yuno-use is started
UseIdle ==
    /\ config = [DryRun |-> FALSE]
    /\ files = <<>>
    /\ files0 = <<>>
    /\ useReqs = <<>>
    /\ keywordReqs = <<>>
    /\ ypc = "idle"
    /\ yi = 0
    /\ printed = <<>>
    /\ yrun = 1
    /\ files1 = <<>>
    /\ printed1 = <<>>

\* the partition Manager before any call
PartIdle ==
    /\ device = "/dev/sda"
    /\ disks = <<>>
    /\ meminfo = [ok |-> FALSE, totalKB |-> 0]
    /\ useEncryption = FALSE
    /\ layout = NoLayout
    /\ mounts = <<>>
    /\ ppc = "idle"
    /\ pidx = 0
    /\ perr = Nil

\* the chroot session before any call
ChrootIdle ==
    /\ cmds = <<>>
    /\ dlog = <<>>
    /\ mounted = <<>>
    /\ mounted0 = <<>>
    /\ mtab0 = mtab
    /\ chrootManager = FALSE
    /\ cpc = "new"
    /\ ci = 0
    /\ cerr = Nil
    /\ ncalls = 0

\* mount tables a (re)started installation can find under the target root
PreMounted == {S \in SUBSET ChrootTargets : Cardinality(S) <= MaxPreMounted}

\* RAM sizes in MiB that /proc/meminfo is read to report
MemSamplesMiB == {0, 512, 1023, 1024, 1025, 4096, 8191, 8192, 8193, 16384}

\* disk sizes in MiB (disk.Size = SizeMiB * 1024 * 1024 + r, r < 1 MiB)
DiskSamplesMiB == {0, 512, 2048, 20480, 512000}

Inventory(sizeMiB) ==
    << [Name |-> "sda", Path |-> "/dev/sda", SizeMiB |-> sizeMiB, Children |-> <<>>],
       [Name |-> "nvme0n1", Path |-> "/dev/nvme0n1", SizeMiB |-> sizeMiB, Children |-> <<>>] >>

\* the mount points of the layouts handed to MountPartitions
MountPointSamples == {"", "/", "/boot", "/home", "/boot/efi"}

\* a layout partition with the given number and mount point
CustomPartition(number, mountPoint) ==
    LayoutPartition(number, "", "", "",
                    IF mountPoint = "" THEN "swap" ELSE IF mountPoint = "/boot" THEN "fat32" ELSE "ext4",
                    mountPoint, "", <<>>, FALSE)

\* the layouts of n partitions over the sample mount points
CustomLayouts(n) ==
    {[Scheme |-> "gpt", Partitions |-> [k \in 1..n |-> CustomPartition(k, mps[k])]] :
        mps \in [1..n -> MountPointSamples]}

Init ==
    /\ isUEFI \in BOOLEAN
    /\ mtab \in PreMounted
    /\ ChrootIdle
    /\ InstIdle
    /\ FstabIdle
    /\ Stage3Idle
    /\ UseIdle
    /\ TuiIdle
    /\ PipeIdle
    /\ PartIdle

Next ==
    \/ InstallEnter /\ UNCHANGED <<chrootVars, ncalls, replayVars, partVars, pipeVars, fstabVars, stage3Vars, useVars, tuiVars, dlog>>
    \/ StartStep /\ UNCHANGED <<chrootVars, ncalls, replayVars, partVars, pipeVars, fstabVars, stage3Vars, useVars, tuiVars, dlog>>
    \/ InstallStep /\ UNCHANGED <<chrootVars, ncalls, replayVars, partVars, pipeVars, fstabVars, stage3Vars, useVars, tuiVars, dlog>>
    \/ InstallSetupChroot /\ UNCHANGED <<ncalls, replayVars, partVars, pipeVars, fstabVars, stage3Vars, useVars, tuiVars, dlog>>
    \/ SetupStep /\ ipc = "fn" /\ UNCHANGED <<ncalls, instVars, replayVars, partVars, pipeVars, fstabVars, stage3Vars, useVars, tuiVars, dlog>>
    \/ SetupFinish /\ ipc = "fn" /\ UNCHANGED <<ncalls, instVars, replayVars, partVars, pipeVars, fstabVars, stage3Vars, useVars, tuiVars, dlog>>
    \/ SetupChrootReturn /\ UNCHANGED <<ncalls, replayVars, partVars, pipeVars, fstabVars, stage3Vars, useVars, tuiVars, dlog>>
    \/ InstallFinalize /\ UNCHANGED <<ncalls, replayVars, partVars, pipeVars, fstabVars, stage3Vars, useVars, tuiVars, dlog>>
    \/ TeardownStep /\ ipc = "fn" /\ UNCHANGED <<ncalls, instVars, replayVars, partVars, pipeVars, fstabVars, stage3Vars, useVars, tuiVars, dlog>>
    \/ TeardownFinish /\ ipc = "fn" /\ UNCHANGED <<ncalls, instVars, replayVars, partVars, pipeVars, fstabVars, stage3Vars, useVars, tuiVars, dlog>>
    \/ FinalizeReturn /\ UNCHANGED <<ncalls, replayVars, partVars, pipeVars, fstabVars, stage3Vars, useVars, tuiVars, dlog>>
    \/ InstallStepReturned /\ UNCHANGED <<chrootVars, ncalls, replayVars, partVars, pipeVars, fstabVars, stage3Vars, useVars, tuiVars, dlog>>
    \/ InstallReturn /\ UNCHANGED <<chrootVars, ncalls, replayVars, partVars, pipeVars, fstabVars, stage3Vars, useVars, tuiVars, dlog>>

Spec == Init /\ [][Next]_vars

InitChroot ==
    /\ isUEFI \in BOOLEAN
    /\ mtab \in PreMounted
    /\ ChrootIdle
    /\ InstIdle
    /\ FstabIdle
    /\ Stage3Idle
    /\ UseIdle
    /\ TuiIdle
    /\ PipeIdle
    /\ PartIdle

NextChroot ==
    \/ CallSetup /\ UNCHANGED <<instVars, replayVars, partVars, pipeVars, fstabVars, stage3Vars, useVars, tuiVars, dlog>>
    \/ CallTeardown /\ UNCHANGED <<instVars, replayVars, partVars, pipeVars, fstabVars, stage3Vars, useVars, tuiVars, dlog>>
    \/ SetupStep /\ UNCHANGED <<ncalls, instVars, replayVars, partVars, pipeVars, fstabVars, stage3Vars, useVars, tuiVars, dlog>>
    \/ SetupFinish /\ UNCHANGED <<ncalls, instVars, replayVars, partVars, pipeVars, fstabVars, stage3Vars, useVars, tuiVars, dlog>>
    \/ TeardownStep /\ UNCHANGED <<ncalls, instVars, replayVars, partVars, pipeVars, fstabVars, stage3Vars, useVars, tuiVars, dlog>>
    \/ TeardownFinish /\ UNCHANGED <<ncalls, instVars, replayVars, partVars, pipeVars, fstabVars, stage3Vars, useVars, tuiVars, dlog>>

SpecChroot == InitChroot /\ [][NextChroot]_vars

InitLayout ==
    /\ isUEFI \in BOOLEAN
    /\ mtab = {}
    /\ ChrootIdle
    /\ InstIdle
    /\ FstabIdle
    /\ Stage3Idle
    /\ UseIdle
    /\ TuiIdle
    /\ PipeIdle
    /\ device \in {"/dev/sda", "nvme0n1", "/dev/sdz", ""}
    /\ disks \in {Inventory(sz) : sz \in DiskSamplesMiB}
    /\ meminfo \in {[ok |-> FALSE, totalKB |-> 0]}
                     \cup {[ok |-> TRUE, totalKB |-> m * 1024 + r] : m \in MemSamplesMiB, r \in {0, 1023}}
    /\ useEncryption \in BOOLEAN
    /\ layout = NoLayout
    /\ mounts = <<>>
    /\ ppc = "idle"
    /\ pidx = 0
    /\ perr = Nil

NextLayout ==
    \/ PlanLayout /\ UNCHANGED <<chrootVars, ncalls, instVars, replayVars, pipeVars, fstabVars, stage3Vars, useVars, tuiVars, dlog>>

SpecLayout == InitLayout /\ [][NextLayout]_vars

InitMount ==
    /\ isUEFI = TRUE
    /\ mtab = {}
    /\ ChrootIdle
    /\ InstIdle
    /\ FstabIdle
    /\ Stage3Idle
    /\ UseIdle
    /\ TuiIdle
    /\ PipeIdle
    /\ device \in {"/dev/sda", "/dev/nvme0n1", "/dev/mmcblk0"}
    /\ disks = Inventory(20480)
    /\ meminfo = [ok |-> TRUE, totalKB |-> 4194304]
    /\ useEncryption = FALSE
    /\ layout \in UNION {CustomLayouts(n) : n \in 1..MaxParts}
    /\ mounts = <<>>
    /\ ppc = "idle"
    /\ pidx = 0
    /\ perr = Nil

NextMount ==
    \/ MountEnter /\ UNCHANGED <<isUEFI, mounted, mounted0, chrootManager, cpc, ci, cerr, instVars, replayVars, pipeVars, fstabVars, stage3Vars, useVars, tuiVars, dlog>>
    \/ MountStep /\ UNCHANGED <<isUEFI, mounted, mounted0, mtab0, chrootManager, cpc, ci, cerr, ncalls, instVars, replayVars, pipeVars, fstabVars, stage3Vars, useVars, tuiVars, dlog>>
    \/ MountFinish /\ UNCHANGED <<isUEFI, mounted, mounted0, mtab0, chrootManager, cpc, ci, cerr, ncalls, instVars, replayVars, pipeVars, fstabVars, stage3Vars, useVars, tuiVars, dlog>>
    \/ UnmountPartitions /\ UNCHANGED <<isUEFI, mounted, mounted0, chrootManager, cpc, ci, cerr, ncalls, instVars, replayVars, pipeVars, fstabVars, stage3Vars, useVars, tuiVars, dlog>>

SpecMount == InitMount /\ [][NextMount]_vars

\* the disks lsblk lists when a partition of sda is still mounted
InventoryMounted(sizeMiB) ==
    << [Name |-> "sda", Path |-> "/dev/sda", SizeMiB |-> sizeMiB,
        Children |-> << [Name |-> "sda1", Mountpoint |-> "/mnt/old"],
                        [Name |-> "sda2", Mountpoint |-> ""] >>],
       [Name |-> "nvme0n1", Path |-> "/dev/nvme0n1", SizeMiB |-> sizeMiB, Children |-> <<>>] >>

\* filesystem and encryption of the partitions of the layouts handed to ApplyLayout
FormatSamples ==
    {[fs |-> f, enc |-> FALSE] : f \in {"ext4", "fat32", "swap", "none", "zfs", "ntfs"}}
        \cup {[fs |-> "ext4", enc |-> TRUE]}

\* a layout partition with the given number, filesystem and encryption
AppliedPartition(number, sample) ==
    LayoutPartition(number, SprintfMiB(100 * number - 99), SprintfMiB(100 * number + 1), "100MiB",
                    sample.fs, "", IF sample.fs = "fat32" THEN "efi" ELSE "",
                    IF sample.fs = "fat32" THEN <<"boot", "esp">> ELSE <<>>, sample.enc)

\* the layouts of n partitions over the format samples
AppliedLayouts(n) ==
    {[Scheme |-> sch, Partitions |-> [k \in 1..n |-> AppliedPartition(k, fss[k])]] :
        sch \in {"gpt", "lvm"}, fss \in [1..n -> FormatSamples]}

InitApply ==
    /\ isUEFI \in BOOLEAN
    /\ mtab = {"/mnt/old", "/mnt/old/boot"}
    /\ ChrootIdle
    /\ InstIdle
    /\ FstabIdle
    /\ Stage3Idle
    /\ UseIdle
    /\ TuiIdle
    /\ PipeIdle
    /\ device \in {"/dev/sda", "/dev/nvme0n1", "/dev/sdz"}
    /\ disks = InventoryMounted(20480)
    /\ meminfo = [ok |-> TRUE, totalKB |-> 4194304]
    /\ useEncryption \in BOOLEAN
    /\ \/ layout = AutoLayout(disks[1], isUEFI, useEncryption, GetMemoryMB(meminfo))
       \/ /\ isUEFI /\ ~useEncryption
          /\ layout \in UNION {AppliedLayouts(n) : n \in 0..MaxParts}
    /\ mounts = <<>>
    /\ ppc = "idle"
    /\ pidx = 0
    /\ perr = Nil

NextApply ==
    \/ ApplyEnter /\ UNCHANGED <<isUEFI, mounted, mounted0, mtab0, chrootManager, cpc, ci, cerr, ncalls, instVars, replayVars, pipeVars, fstabVars, stage3Vars, useVars, tuiVars, dlog>>
    \/ ApplyWipe /\ UNCHANGED <<isUEFI, mounted, mounted0, mtab0, chrootManager, cpc, ci, cerr, ncalls, instVars, replayVars, pipeVars, fstabVars, stage3Vars, useVars, tuiVars, dlog>>
    \/ ApplyTable /\ UNCHANGED <<isUEFI, mounted, mounted0, mtab0, chrootManager, cpc, ci, cerr, ncalls, instVars, replayVars, pipeVars, fstabVars, stage3Vars, useVars, tuiVars, dlog>>
    \/ ApplyCreate /\ UNCHANGED <<isUEFI, mounted, mounted0, mtab0, chrootManager, cpc, ci, cerr, ncalls, instVars, replayVars, pipeVars, fstabVars, stage3Vars, useVars, tuiVars, dlog>>
    \/ ApplySettle /\ UNCHANGED <<isUEFI, mounted, mounted0, mtab0, chrootManager, cpc, ci, cerr, ncalls, instVars, replayVars, pipeVars, fstabVars, stage3Vars, useVars, tuiVars, dlog>>
    \/ ApplyFormat /\ UNCHANGED <<isUEFI, mounted, mounted0, mtab0, chrootManager, cpc, ci, cerr, ncalls, instVars, replayVars, pipeVars, fstabVars, stage3Vars, useVars, tuiVars, dlog>>
    \/ ApplyFinish /\ UNCHANGED <<isUEFI, mounted, mounted0, mtab0, chrootManager, cpc, ci, cerr, ncalls, instVars, replayVars, pipeVars, fstabVars, stage3Vars, useVars, tuiVars, dlog>>

SpecApply == InitApply /\ [][NextApply]_vars

\* what the environment has done by the end of a step: the mount table,
\* the outcomes of the commands, and the errors and sub-operation outcomes
\* that stem from it
Obs == <<mtab, cmds, cerr, serr, fops>>

\* a step of a run of Install, recorded on the tape, in an environment where
\* at most MaxFailures commands of a log fail; a step of the replay meets
\* the environment doing what it did in run 1
Run(A) ==
    /\ A
    /\ Cardinality({k \in 1..Len(cmds') : ~cmds'[k].ok}) <= MaxFailures
    /\ tape' = Append(tape, Obs')
    /\ run = 2 => (Len(tape') <= Len(first.tape) /\ first.tape[Len(tape')] = Last(tape'))
    /\ UNCHANGED <<run, first>>

\* run 1 has returned: a new Installer, without callbacks, is made on the
\* host as run 1 found it
Replay ==
    /\ run = 1
    /\ ipc = "done"
    /\ run' = 2
    /\ first' = [mtab |-> first.mtab, cbs |-> <<progressCb, outputCb>>, tape |-> tape,
                 invoked |-> invoked, result |-> result]
    /\ tape' = <<>>
    /\ ipc' = "idle" /\ step' = 0 /\ currentStep' = 0 /\ invoked' = <<>>
    /\ serr' = Nil /\ result' = Nil
    /\ progressCb' = FALSE /\ outputCb' = FALSE /\ events' = <<>> /\ fops' = <<>>
    /\ mtab' = first.mtab /\ mtab0' = first.mtab
    /\ cmds' = <<>> /\ mounted' = <<>> /\ mounted0' = <<>>
    /\ chrootManager' = FALSE /\ cpc' = "new" /\ ci' = 0 /\ cerr' = Nil
    /\ UNCHANGED <<isUEFI, ncalls, partVars, pipeVars, fstabVars, stage3Vars, useVars, tuiVars, dlog>>

InitCallbacks ==
    /\ isUEFI \in BOOLEAN
    /\ mtab = {}
    /\ ChrootIdle
    /\ InstIdle
    /\ FstabIdle
    /\ Stage3Idle
    /\ UseIdle
    /\ TuiIdle
    /\ PipeIdle
    /\ PartIdle

NextCallbacks ==
    \/ run = 1 /\ SetProgressCallback /\ UNCHANGED <<chrootVars, ncalls, replayVars, partVars, pipeVars, fstabVars, stage3Vars, useVars, tuiVars, dlog>>
    \/ run = 1 /\ SetOutputCallback /\ UNCHANGED <<chrootVars, ncalls, replayVars, partVars, pipeVars, fstabVars, stage3Vars, useVars, tuiVars, dlog>>
    \/ Run(InstallEnter /\ UNCHANGED <<chrootVars, ncalls, partVars, pipeVars, fstabVars, stage3Vars, useVars, tuiVars, dlog>>)
    \/ Run(StartStep /\ UNCHANGED <<chrootVars, ncalls, partVars, pipeVars, fstabVars, stage3Vars, useVars, tuiVars, dlog>>)
    \/ Run(InstallStep /\ UNCHANGED <<chrootVars, ncalls, partVars, pipeVars, fstabVars, stage3Vars, useVars, tuiVars, dlog>>)
    \/ Run(InstallSetupChroot /\ UNCHANGED <<ncalls, partVars, pipeVars, fstabVars, stage3Vars, useVars, tuiVars, dlog>>)
    \/ Run(SetupStep /\ ipc = "fn" /\ UNCHANGED <<ncalls, instVars, partVars, pipeVars, fstabVars, stage3Vars, useVars, tuiVars, dlog>>)
    \/ Run(SetupFinish /\ ipc = "fn" /\ UNCHANGED <<ncalls, instVars, partVars, pipeVars, fstabVars, stage3Vars, useVars, tuiVars, dlog>>)
    \/ Run(SetupChrootReturn /\ UNCHANGED <<ncalls, partVars, pipeVars, fstabVars, stage3Vars, useVars, tuiVars, dlog>>)
    \/ Run(InstallFinalize /\ UNCHANGED <<ncalls, partVars, pipeVars, fstabVars, stage3Vars, useVars, tuiVars, dlog>>)
    \/ Run(TeardownStep /\ ipc = "fn" /\ UNCHANGED <<ncalls, instVars, partVars, pipeVars, fstabVars, stage3Vars, useVars, tuiVars, dlog>>)
    \/ Run(TeardownFinish /\ ipc = "fn" /\ UNCHANGED <<ncalls, instVars, partVars, pipeVars, fstabVars, stage3Vars, useVars, tuiVars, dlog>>)
    \/ Run(FinalizeReturn /\ UNCHANGED <<ncalls, partVars, pipeVars, fstabVars, stage3Vars, useVars, tuiVars, dlog>>)
    \/ Run(InstallStepReturned /\ UNCHANGED <<chrootVars, ncalls, partVars, pipeVars, fstabVars, stage3Vars, useVars, tuiVars, dlog>>)
    \/ Run(InstallReturn /\ UNCHANGED <<chrootVars, ncalls, partVars, pipeVars, fstabVars, stage3Vars, useVars, tuiVars, dlog>>)
    \/ Replay

SpecCallbacks == InitCallbacks /\ [][NextCallbacks]_vars

\* the outputs of a command on a stream: up to MaxLines lines, each given by
\* its length in bytes
Outputs == UNION {[1..n -> {0, 80, MaxScanTokenSize - 1, MaxScanTokenSize}] : n \in 0..MaxLines}

InitOutput ==
    /\ isUEFI = TRUE
    /\ mtab = {}
    /\ ChrootIdle
    /\ InstIdle
    /\ FstabIdle
    /\ Stage3Idle
    /\ UseIdle
    /\ TuiIdle
    /\ PartIdle
    /\ callback \in BOOLEAN
    /\ written \in [Streams -> Outputs]
    /\ scanned = [s \in Streams |-> 0]
    /\ rpc = [main |-> "idle", stdout |-> "idle", stderr |-> "idle"]
    /\ delivered = <<>>
    /\ rerr = Nil
    /\ wg = 0

NextOutput ==
    \/ RunStart /\ UNCHANGED <<chrootVars, ncalls, instVars, replayVars, partVars, fstabVars, stage3Vars, useVars, tuiVars, dlog>>
    \/ ReadPipe("stdout") /\ UNCHANGED <<chrootVars, ncalls, instVars, replayVars, partVars, fstabVars, stage3Vars, useVars, tuiVars, dlog>>
    \/ ReadPipe("stderr") /\ UNCHANGED <<chrootVars, ncalls, instVars, replayVars, partVars, fstabVars, stage3Vars, useVars, tuiVars, dlog>>
    \/ CallbackReturn("stdout") /\ UNCHANGED <<chrootVars, ncalls, instVars, replayVars, partVars, fstabVars, stage3Vars, useVars, tuiVars, dlog>>
    \/ CallbackReturn("stderr") /\ UNCHANGED <<chrootVars, ncalls, instVars, replayVars, partVars, fstabVars, stage3Vars, useVars, tuiVars, dlog>>
    \/ RunWait /\ UNCHANGED <<chrootVars, ncalls, instVars, replayVars, partVars, fstabVars, stage3Vars, useVars, tuiVars, dlog>>

SpecOutput == InitOutput /\ [][NextOutput]_vars

\* the scheduler runs each reader goroutine and the main goroutine when it
\* can take a step, and the callback returns
FairOutput ==
    /\ \A s \in Streams : WF_vars(ReadPipe(s) /\ UNCHANGED <<chrootVars, ncalls, instVars, replayVars, partVars, fstabVars, stage3Vars, useVars, tuiVars, dlog>>)
    /\ \A s \in Streams : WF_vars(CallbackReturn(s) /\ UNCHANGED <<chrootVars, ncalls, instVars, replayVars, partVars, fstabVars, stage3Vars, useVars, tuiVars, dlog>>)
    /\ WF_vars(RunWait /\ UNCHANGED <<chrootVars, ncalls, instVars, replayVars, partVars, fstabVars, stage3Vars, useVars, tuiVars, dlog>>)

SpecOutputFair == InitOutput /\ [][NextOutput]_vars /\ FairOutput

\* base devices handed to the device naming rule
DeviceSamples ==
    {"/dev/sda", "/dev/vda", "/dev/nvme0n1", "/dev/mmcblk0", "nvme", "mmcblk", "/dev/mmcbl", "/dev/nvm", ""}

InitFstab ==
    /\ isUEFI = TRUE
    /\ mtab = {}
    /\ ChrootIdle
    /\ InstIdle
    /\ Stage3Idle
    /\ UseIdle
    /\ TuiIdle
    /\ PipeIdle
    /\ \/ /\ device \in DeviceSamples
          /\ layout \in CustomLayouts(1)
       \/ /\ device \in {"/dev/sda", "/dev/mmcblk0"}
          /\ layout \in UNION {CustomLayouts(n) : n \in 2..MaxParts}
    /\ disks = Inventory(20480)
    /\ meminfo = [ok |-> TRUE, totalKB |-> 4194304]
    /\ useEncryption = FALSE
    /\ mounts = <<>>
    /\ ppc = "idle"
    /\ pidx = 0
    /\ perr = Nil
    /\ blkid \in [1..Len(layout.Partitions) -> {"", "\n", "0a1b-2c3d\n"}]
    /\ fstab = <<>>

NextFstab ==
    \/ GenerateFstab /\ UNCHANGED <<isUEFI, mtab, mounted, mounted0, mtab0, chrootManager, cpc, ci, cerr,
                                    ncalls, replayVars, partVars, pipeVars, stage3Vars, useVars, tuiVars, dlog>>

SpecFstab == InitFstab /\ [][NextFstab]_vars

\* the lines of the digests files served for the tarball: a SHA256 line, the
\* same in upper case, the line of another file, a line of a different
\* hash, a line too short, and a DIGESTS file whose first line for the
\* tarball is its SHA512
DigestSamples ==
    LET line(hash, file, len) == [hash |-> hash, text |-> hash \o "  " \o file, len |-> len]
    IN { <<>>,
         <<line("9f2c", Tarball, 92)>>,
         <<line("9F2C", Tarball, 92)>>,
         <<line("9f2c", "stage3-amd64-systemd.tar.xz", 93)>>,
         <<line("77aa", Tarball, 92)>>,
         <<line("9f2c", Tarball, 30)>>,
         <<line("c0ffee", Tarball \o ".CONTENTS.gz", 104), line("9f2c", Tarball, 92)>>,
         <<line("c0de512", Tarball, 156), line("9f2c", Tarball, 92)>> }

InitStage3 ==
    /\ isUEFI = TRUE
    /\ mtab = {}
    /\ ChrootIdle
    /\ InstIdle
    /\ FstabIdle
    /\ Stage3Idle
    /\ UseIdle
    /\ TuiIdle
    /\ PipeIdle
    /\ PartIdle

NextStage3 ==
    \/ Stage3Fetch /\ UNCHANGED <<chrootVars, ncalls, instVars, replayVars, partVars, pipeVars, fstabVars, useVars, tuiVars, dlog>>
    \/ Stage3VerifyChecksum(DigestSamples) /\ UNCHANGED <<chrootVars, ncalls, instVars, replayVars, partVars, pipeVars, fstabVars, useVars, tuiVars, dlog>>
    \/ Stage3VerifyGPG /\ UNCHANGED <<chrootVars, ncalls, instVars, replayVars, partVars, pipeVars, fstabVars, useVars, tuiVars, dlog>>
    \/ Stage3Extract /\ UNCHANGED <<chrootVars, ncalls, instVars, replayVars, partVars, pipeVars, fstabVars, useVars, tuiVars, dlog>>

SpecStage3 == InitStage3 /\ [][NextStage3]_vars

\* /etc/portage before yuno-use runs: package.use missing, a file or a
\* directory, package.accept_keywords missing or a directory, and the files
\* in them
FileSystems ==
    LET openssl == Join(PackageUseDir, "openssl.use")
        rust == Join(KeywordsDir, "rust.accept_keywords")
    IN {[packageUse |-> "missing", keywords |-> k, content |-> <<>>] : k \in {"missing", "dir"}}
       \cup {[packageUse |-> "file", keywords |-> k,
              content |-> (PackageUseDir :> ">=dev-libs/openssl-3.0.0 -bindist\n")] : k \in {"missing", "dir"}}
       \cup {[packageUse |-> "dir", keywords |-> k, content |-> c] :
                k \in {"missing", "dir"},
                c \in {<<>>, (openssl :> ">=dev-libs/openssl-3.0.0 -bindist\n"),
                       (openssl :> "dev-libs/openssl  ssl")}}
       \cup {[packageUse |-> "dir", keywords |-> "dir", content |-> (rust :> "=dev-lang/Rust-1.75.0 ~amd64 \n")]}

\* the requirements parsed from the emerge output, which the parsers keep
\* free of duplicates
UseSamples ==
    { [Atom |-> ">=dev-libs/openssl-3.0.0", Flags |-> <<"-bindist">>],
      [Atom |-> "dev-libs/openssl", Flags |-> <<"ssl">>],
      [Atom |-> ">=app-crypt/gnupg-2.0", Flags |-> <<"smartcard", "tools">>] }

KeywordSamples ==
    { [Atom |-> "=dev-lang/Rust-1.75.0", Keyword |-> "~amd64"],
      [Atom |-> "dev-libs/openssl", Keyword |-> "**"] }

Distinct(seq) == \A j, k \in 1..Len(seq) : seq[j] = seq[k] => j = k

InitUse ==
    /\ isUEFI = TRUE
    /\ mtab = {}
    /\ ChrootIdle
    /\ InstIdle
    /\ FstabIdle
    /\ Stage3Idle
    /\ PipeIdle
    /\ PartIdle
    /\ config \in [DryRun : BOOLEAN]
    /\ files \in FileSystems
    /\ files0 = files
    /\ useReqs \in {r \in UNION {[1..n -> UseSamples] : n \in 0..MaxReqs} : Distinct(r)}
    /\ keywordReqs \in {r \in UNION {[1..n -> KeywordSamples] : n \in 0..MaxReqs} : Distinct(r)}
    /\ ypc = "idle"
    /\ yi = 0
    /\ printed = <<>>
    /\ yrun = 1
    /\ files1 = <<>>
    /\ printed1 = <<>>
    /\ TuiIdle

NextUse ==
    \/ UseStart /\ UNCHANGED <<chrootVars, ncalls, instVars, replayVars, partVars, pipeVars, fstabVars, stage3Vars, tuiVars, dlog>>
    \/ UseProcessUse /\ UNCHANGED <<chrootVars, ncalls, instVars, replayVars, partVars, pipeVars, fstabVars, stage3Vars, tuiVars, dlog>>
    \/ UseProcessKeyword /\ UNCHANGED <<chrootVars, ncalls, instVars, replayVars, partVars, pipeVars, fstabVars, stage3Vars, tuiVars, dlog>>
    \/ UseFinish /\ UNCHANGED <<chrootVars, ncalls, instVars, replayVars, partVars, pipeVars, fstabVars, stage3Vars, tuiVars, dlog>>

SpecUse == InitUse /\ [][NextUse]_vars

\* two runs of yuno-use on the same input of at most MaxReqs requirements,
\* not in dry-run mode, with at most MaxFailures failed writes
InitUseTwice ==
    /\ InitUse
    /\ ~config.DryRun
    /\ Len(useReqs) + Len(keywordReqs) <= MaxReqs

NextUseTwice ==
    \/ /\ NextUse
       /\ Len(SelectSeq(printed1 \o printed', LAMBDA said : HasPrefix(said, "Failed"))) <= MaxFailures
    \/ UseRerun /\ UNCHANGED <<chrootVars, ncalls, instVars, replayVars, partVars, pipeVars, fstabVars, stage3Vars, tuiVars, dlog>>

SpecUseTwice == InitUseTwice /\ [][NextUseTwice]_vars

\* NewApp and Init, whose batch runs detectDisks
InitTui ==
    /\ isUEFI = TRUE
    /\ mtab = {}
    /\ ChrootIdle
    /\ InstIdle
    /\ FstabIdle
    /\ Stage3Idle
    /\ UseIdle
    /\ PipeIdle
    /\ PartIdle
    /\ app = NewApp
    /\ pending = {[type |-> "disksDetectedMsg", disks |-> MockDisks]}
    /\ tcmds = <<>>
    /\ key = [type |-> "none"]

NextTui ==
    \/ TuiKey /\ UNCHANGED <<chrootVars, ncalls, instVars, replayVars, partVars, pipeVars, fstabVars, stage3Vars, useVars, dlog>>
    \/ TuiResize /\ UNCHANGED <<chrootVars, ncalls, instVars, replayVars, partVars, pipeVars, fstabVars, stage3Vars, useVars, dlog>>
    \/ TuiDeliver /\ UNCHANGED <<chrootVars, ncalls, instVars, replayVars, partVars, pipeVars, fstabVars, stage3Vars, useVars, dlog>>

SpecTui == InitTui /\ [][NextTui]_vars

\* Install on a machine whose sda has mounted partitions, for each device
\* the configuration may name, up to the return of the mount step
InitDisk ==
    /\ isUEFI \in BOOLEAN
    /\ mtab = {"/mnt/old", "/mnt/old/boot"}
    /\ ChrootIdle
    /\ InstIdle
    /\ FstabIdle
    /\ Stage3Idle
    /\ UseIdle
    /\ TuiIdle
    /\ PipeIdle
    /\ device \in {"/dev/sda", "/dev/nvme0n1", "/dev/sdz", ""}
    /\ disks = InventoryMounted(20480)
    /\ meminfo = [ok |-> TRUE, totalKB |-> 4194304]
    /\ useEncryption \in BOOLEAN
    /\ layout = NoLayout
    /\ mounts = <<>>
    /\ ppc = "idle"
    /\ pidx = 0
    /\ perr = Nil

NextDisk ==
    \/ Logged(InstallEnter /\ UNCHANGED <<chrootVars, ncalls, replayVars, partVars, pipeVars, fstabVars, stage3Vars, useVars, tuiVars>>)
    \/ Logged(StartStep /\ steps[step + 1] \in {"partitionDisk", "setupEncryption", "mountPartitions"} /\ UNCHANGED <<chrootVars, ncalls, replayVars, partVars, pipeVars, fstabVars, stage3Vars, useVars, tuiVars>>)
    \/ Logged(InstallPartitionDisk /\ UNCHANGED <<chrootVars, ncalls, replayVars, pipeVars, fstabVars, stage3Vars, useVars, tuiVars>>)
    \/ Logged(PartitionDiskApply /\ UNCHANGED <<isUEFI, mounted, mounted0, mtab0, chrootManager, cpc, ci, cerr, ncalls, replayVars, pipeVars, fstabVars, stage3Vars, useVars, tuiVars>>)
    \/ Logged(ApplyWipe /\ ipc = "fn" /\ UNCHANGED <<isUEFI, mounted, mounted0, mtab0, chrootManager, cpc, ci, cerr, ncalls, instVars, replayVars, pipeVars, fstabVars, stage3Vars, useVars, tuiVars>>)
    \/ Logged(ApplyTable /\ ipc = "fn" /\ UNCHANGED <<isUEFI, mounted, mounted0, mtab0, chrootManager, cpc, ci, cerr, ncalls, instVars, replayVars, pipeVars, fstabVars, stage3Vars, useVars, tuiVars>>)
    \/ Logged(ApplyCreate /\ ipc = "fn" /\ UNCHANGED <<isUEFI, mounted, mounted0, mtab0, chrootManager, cpc, ci, cerr, ncalls, instVars, replayVars, pipeVars, fstabVars, stage3Vars, useVars, tuiVars>>)
    \/ Logged(ApplySettle /\ ipc = "fn" /\ UNCHANGED <<isUEFI, mounted, mounted0, mtab0, chrootManager, cpc, ci, cerr, ncalls, instVars, replayVars, pipeVars, fstabVars, stage3Vars, useVars, tuiVars>>)
    \/ Logged(ApplyFormat /\ ipc = "fn" /\ UNCHANGED <<isUEFI, mounted, mounted0, mtab0, chrootManager, cpc, ci, cerr, ncalls, instVars, replayVars, pipeVars, fstabVars, stage3Vars, useVars, tuiVars>>)
    \/ Logged(ApplyFinish /\ ipc = "fn" /\ UNCHANGED <<isUEFI, mounted, mounted0, mtab0, chrootManager, cpc, ci, cerr, ncalls, instVars, replayVars, pipeVars, fstabVars, stage3Vars, useVars, tuiVars>>)
    \/ Logged(PartitionDiskReturn /\ UNCHANGED <<chrootVars, ncalls, replayVars, partVars, pipeVars, fstabVars, stage3Vars, useVars, tuiVars>>)
    \/ Logged(InstallSetupEncryption /\ UNCHANGED <<isUEFI, mtab, mounted, mounted0, mtab0, chrootManager, cpc, ci, cerr, ncalls, replayVars, partVars, pipeVars, fstabVars, stage3Vars, useVars, tuiVars>>)
    \/ Logged(InstallMountPartitions /\ UNCHANGED <<isUEFI, mounted, mounted0, chrootManager, cpc, ci, cerr, replayVars, pipeVars, fstabVars, stage3Vars, useVars, tuiVars>>)
    \/ Logged(MountStep /\ ipc = "fn" /\ UNCHANGED <<isUEFI, mounted, mounted0, mtab0, chrootManager, cpc, ci, cerr, ncalls, instVars, replayVars, pipeVars, fstabVars, stage3Vars, useVars, tuiVars>>)
    \/ Logged(MountFinish /\ ipc = "fn" /\ UNCHANGED <<isUEFI, mounted, mounted0, mtab0, chrootManager, cpc, ci, cerr, ncalls, instVars, replayVars, pipeVars, fstabVars, stage3Vars, useVars, tuiVars>>)
    \/ Logged(MountPartitionsReturn /\ UNCHANGED <<chrootVars, ncalls, replayVars, partVars, pipeVars, fstabVars, stage3Vars, useVars, tuiVars>>)
    \/ Logged(InstallStepReturned /\ UNCHANGED <<chrootVars, ncalls, replayVars, partVars, pipeVars, fstabVars, stage3Vars, useVars, tuiVars>>)

SpecDisk == InitDisk /\ [][NextDisk]_vars

\* ------------------------------------------------------------- claims
RECURSIVE IsSubSeq(_, _)
IsSubSeq(a, b) ==
    IF a = <<>> THEN TRUE
    ELSE IF b = <<>> THEN FALSE
    ELSE IF Head(a) = Head(b) THEN IsSubSeq(Tail(a), Tail(b))
    ELSE IsSubSeq(a, Tail(b))

NoDuplicates(s) == \A j, k \in 1..Len(s) : s[j] = s[k] => j = k

\* the targets of the commands issued so far, in order
Tried == [k \in 1..Len(cmds) |-> Last(cmds[k].args)]

\* the targets Setup considers on this host
Canonical ==
    {DefaultMounts(TargetDir)[k].Target : k \in
        {j \in 1..Len(DefaultMounts(TargetDir)) :
            DefaultMounts(TargetDir)[j].FSType # "efivarfs" \/ isUEFI}}

\* C2: when Teardown has returned, the unmounts it attempted are umount
\* calls on tracked targets in the reverse of the order Setup recorded them,
\* and every tracked target it did not attempt is not mounted: a failed
\* unmount stopped none of the remaining attempts.
C2_TeardownReverseAll ==
    cpc = "teardown_ret" =>
        /\ \A k \in 1..Len(cmds) : cmds[k].cmd = "umount"
        /\ IsSubSeq(Tried, Reverse(mounted0))
        /\ \A k \in 1..Len(mounted0) :
              mounted0[k] \in Range(Tried) \/ mounted0[k] \notin mtab

\* C2 witness: a Teardown of three or more tracked mounts in which an
\* unmount failed and a later one was still attempted.
C2_Witness ==
    /\ cpc = "teardown_ret"
    /\ Len(mounted0) >= 3
    /\ \E j, k \in 1..Len(cmds) : j < k /\ ~cmds[j].ok /\ cmds[k].ok

\* C4: a Setup that began with every canonical target already mounted
\* issues no mount call and leaves the tracked list as it was, without
\* duplicates.
C4_SetupIdempotent ==
    (cpc \in {"setup", "setup_ret"} /\ Canonical \subseteq mtab0) =>
        /\ cmds = <<>>
        /\ mounted = mounted0
        /\ NoDuplicates(mounted)

\* C4 witness: a second Setup returned nil on a session that tracks mounts
\* and found all canonical targets mounted.
C4_Witness ==
    /\ cpc = "setup_ret"
    /\ cerr = Nil
    /\ ncalls >= 2
    /\ Canonical \subseteq mtab0
    /\ Len(mounted0) >= 7

\* C1: once a step function has returned an error, the steps invoked are
\* exactly the pipeline's steps up to that step, each once and in pipeline
\* order, Install is returning or has returned, and the error it returned
\* names that step; no later step is invoked.
C1_FailFast ==
    /\ invoked = SubSeq(steps, 1, Len(invoked))
    /\ serr # Nil =>
         /\ Len(invoked) = currentStep + 1
         /\ ipc \in {"ret", "done"}
         /\ ipc = "done" =>
              /\ result # Nil
              /\ HasPrefix(result.text, "step " \o String(Len(invoked) - 1) \o " failed: ")
              /\ result.Err = serr

\* C1 witness: Install returned the error of the kernel step, the tenth.
C1_Witness ==
    /\ ipc = "done"
    /\ serr # Nil
    /\ Last(invoked) = "installKernel"
    /\ result.text = "step Installing kernel failed: installer: installKernel failed: exit status 1"

\* C3 (as claimed): when Install has returned an error and the session
\* tracks a mount it made, Teardown has been run on the session.
C3_AbortTearsDown ==
    (ipc = "done" /\ result # Nil /\ chrootManager /\ mounted # <<>>) =>
        cpc = "teardown_ret"

\* the mount points of the layout's partitions that have one, in layout order
LayoutMountPoints ==
    LET withMP == SelectSeq(layout.Partitions, LAMBDA part : part.MountPoint # "")
    IN [k \in 1..Len(withMP) |-> withMP[k].MountPoint]

\* the mount points of the mount calls issued so far, in order
MountCalls ==
    LET calls == SelectSeq(cmds, LAMBDA c : c.cmd = "mount")
    IN [k \in 1..Len(calls) |->
          SubSeq(Last(calls[k].args), Len(TargetDir) + 1, Len(Last(calls[k].args)))]

IsPrefix(a, b) == Len(a) <= Len(b) /\ a = SubSeq(b, 1, Len(a))

\* a is a proper path ancestor of b
ProperAncestor(a, b) ==
    /\ a # b
    /\ IF a = "/" THEN HasPrefix(b, "/") ELSE HasPrefix(b, a \o "/")

C6_MountByLength ==
    /\ \A j, k \in 1..Len(MountCalls) :
         j < k => /\ Len(MountCalls[j]) <= Len(MountCalls[k])
                  /\ ~ProperAncestor(MountCalls[k], MountCalls[j])
    /\ (ppc = "mount_ret" /\ perr = Nil) =>
         /\ Len(MountCalls) = Len(LayoutMountPoints)
         /\ Range(MountCalls) = Range(LayoutMountPoints)

\* C6 witness: a layout listing "/boot/efi", "/boot", "/" was mounted whole.
C6_Witness ==
    /\ ppc = "mount_ret"
    /\ perr = Nil
    /\ LayoutMountPoints = <<"/boot/efi", "/boot", "/">>
    /\ MountCalls = <<"/", "/boot", "/boot/efi">>

\* CreateAutoLayout has returned a layout
Planned == ppc = "planned" /\ perr = Nil

\* C7: in a layout CreateAutoLayout returned, start offsets increase
\* strictly, every partition but the last ends after it starts and is
\* followed by a partition starting where it ends, exactly one partition
\* has mount point "/", and there is exactly one "/boot" partition with the
\* esp flag if the host is UEFI and none otherwise.
C7_LayoutGeometry ==
    Planned =>
        LET P == layout.Partitions IN
        /\ \A k \in 1..(Len(P) - 1) :
             /\ parseStartMiB(P[k].Start) < parseStartMiB(P[k].End)
             /\ P[k + 1].Start = P[k].End
             /\ parseStartMiB(P[k].Start) < parseStartMiB(P[k + 1].Start)
        /\ Cardinality({k \in 1..Len(P) : P[k].MountPoint = "/"}) = 1
        /\ Cardinality({k \in 1..Len(P) :
               P[k].MountPoint = "/boot" /\ "esp" \in Range(P[k].Flags)})
             = IF isUEFI THEN 1 ELSE 0

\* C7 witness: a UEFI layout planned for a 512 MiB disk on a 16 GiB host.
C7_Witness ==
    /\ Planned
    /\ isUEFI
    /\ useEncryption
    /\ disks[1].SizeMiB = 512
    /\ meminfo = [ok |-> TRUE, totalKB |-> 16777216]

\* the RAM size in MiB the host reports, 0 if it cannot be read
RamMiB == IF meminfo.ok THEN meminfo.totalKB \div 1024 ELSE 0

Clamp(x, lo, hi) == IF x < lo THEN lo ELSE IF x > hi THEN hi ELSE x

\* C8: the planned layout has one swap partition; its size is
\* clamp(RAM MiB, 1024, 8192) MiB (512 gives 1024, 4096 gives 4096, 16384
\* gives 8192, unreadable gives 1024), its end is its start plus that size,
\* and it has no mount point.
C8_SwapSize ==
    Planned =>
        LET P == layout.Partitions
            S == {k \in 1..Len(P) : P[k].Filesystem = "swap"}
        IN /\ Cardinality(S) = 1
           /\ \A k \in S :
                /\ P[k].Size = Itoa(Clamp(RamMiB, 1024, 8192)) \o "MiB"
                /\ RamMiB \in {0, 512} => P[k].Size = "1024MiB"
                /\ RamMiB = 4096 => P[k].Size = "4096MiB"
                /\ RamMiB = 16384 => P[k].Size = "8192MiB"
                /\ parseStartMiB(P[k].End) = parseStartMiB(P[k].Start) + Clamp(RamMiB, 1024, 8192)
                /\ (isUEFI /\ RamMiB = 4096) => (P[k].Start = "1025MiB" /\ P[k].End = "5121MiB")
                /\ P[k].MountPoint = ""

\* C8 witness: a layout planned on a host whose RAM size could not be read.
C8_Witness ==
    /\ Planned
    /\ ~meminfo.ok
    /\ layout.Partitions[Len(layout.Partitions) - 1].Size = "1024MiB"

\* C9: the planned partitions are numbered 1, 2, 3, ... in list order; on
\* BIOS they are the bios_grub stub, the ext4 /boot, swap, root; on UEFI the
\* FAT32 /boot ESP, swap, root; root is last, ends at "100%", and is the
\* only partition that can be encrypted, which it is iff useEncryption.
C9_LayoutOrder ==
    Planned =>
        LET P == layout.Partitions
            n == Len(P)
        IN /\ \A k \in 1..n : P[k].Number = k
           /\ IF isUEFI
              THEN /\ n = 3
                   /\ P[1].Start = "1MiB" /\ P[1].End = "1025MiB" /\ P[1].Size = "1024MiB"
                   /\ P[1].Filesystem = "fat32" /\ P[1].MountPoint = "/boot"
                   /\ P[1].Flags = <<"boot", "esp">>
              ELSE /\ n = 4
                   /\ P[1].Start = "1MiB" /\ P[1].End = "3MiB"
                   /\ P[1].Filesystem = "none" /\ P[1].MountPoint = ""
                   /\ P[1].Flags = <<"bios_grub">>
                   /\ P[2].Start = "3MiB" /\ P[2].End = "515MiB" /\ P[2].Size = "512MiB"
                   /\ P[2].Filesystem = "ext4" /\ P[2].MountPoint = "/boot"
                   /\ P[2].Flags = <<"boot">>
           /\ P[n - 1].Filesystem = "swap"
           /\ P[n].Filesystem = "ext4" /\ P[n].MountPoint = "/" /\ P[n].End = "100%"
           /\ \A k \in 1..(n - 1) : ~P[k].Encrypt
           /\ P[n].Encrypt = useEncryption

\* C9 witness: an encrypted BIOS layout planned for the disk named nvme0n1.
C9_Witness ==
    /\ Planned
    /\ ~isUEFI
    /\ useEncryption
    /\ device = "nvme0n1"
    /\ layout.Partitions[4].Encrypt

\* the commands ApplyLayout has issued, sync (run by two phases) left out
Issued == SelectSeq(cmds, LAMBDA c : c.cmd # "sync")

FormatTools == {"mkfs.ext4", "mkfs.btrfs", "mkfs.xfs", "mkfs.f2fs", "mkfs.vfat", "mkswap"}

\* the phase a command belongs to: 1 wipe, 2 table, 3 partition creation,
\* 4 partprobe, 5 udevadm settle, 6 format
Phase(c) ==
    CASE c.cmd \in {"umount", "wipefs", "dd"} -> 1
      [] c.cmd = "parted" /\ c.args[3] = "mklabel" -> 2
      [] c.cmd = "parted" /\ c.args[3] # "mklabel" -> 3
      [] c.cmd = "partprobe" -> 4
      [] c.cmd = "udevadm" -> 5
      [] c.cmd \in FormatTools -> 6

\* the commands whose failure ApplyLayout is to return
Fatal(c) ==
    \/ c.cmd = "wipefs"
    \/ c.cmd = "parted" /\ c.args[3] \in {"mklabel", "mkpart"}
    \/ c.cmd \in FormatTools

\* the phase the error ApplyLayout returned comes from
FailedPhase(err) ==
    IF err.Message = "failed to wipe disk signatures"
         \/ err.Message = "failed to list disks" \/ HasPrefix(err.Message, "disk ")
    THEN 1
    ELSE IF err.Message = "failed to create partition table"
              \/ HasPrefix(err.Message, "unsupported partition scheme: ")
    THEN 2
    ELSE IF HasPrefix(err.Message, "failed to create partition ")
    THEN 3
    ELSE 6

\* C10: the commands of ApplyLayout come phase by phase in the order wipe,
\* table, partition creation, partprobe, udevadm settle, format; a format
\* command is issued only after every partition was created and partprobe
\* and udevadm settle have run; a failed wipefs, mklabel, mkpart or format
\* command is the last command issued and its error is what ApplyLayout
\* returns; an ApplyLayout that returned an error issued no command of a
\* phase after the failed one, and one that returned nil ran every phase.
C10_ApplyPhases ==
    LET n == Len(layout.Partitions)
        made == {k \in 1..Len(Issued) : Issued[k].cmd = "parted" /\ Issued[k].args[3] = "mkpart"}
        formatted == {k \in 1..Len(Issued) : Phase(Issued[k]) = 6}
    IN /\ \A j, k \in 1..Len(Issued) : j < k => Phase(Issued[j]) <= Phase(Issued[k])
       /\ \A k \in formatted :
            /\ Cardinality({j \in made : j < k /\ Issued[j].ok}) = n
            /\ \A p \in 1..n : \E j \in made :
                 Issued[j].args[Len(Issued[j].args) - 1] = layout.Partitions[p].Start
            /\ \E j \in 1..(k - 2) : Issued[j].cmd = "partprobe" /\ Issued[j + 1].cmd = "udevadm"
            /\ \E j \in 1..(k - 1) : Issued[j].cmd = "wipefs" /\ Issued[j].ok
            /\ \E j \in 1..(k - 1) : Phase(Issued[j]) = 2 /\ Issued[j].ok
       /\ \A k \in 1..Len(cmds) :
            (Fatal(cmds[k]) /\ ~cmds[k].ok) =>
                /\ k = Len(cmds)
                /\ ppc = "apply_ret"
                /\ perr # Nil
                /\ perr.Err = OSError
                /\ FailedPhase(perr) = Phase(cmds[k])
       /\ (ppc = "apply_ret" /\ perr # Nil) =>
            \A k \in 1..Len(Issued) : Phase(Issued[k]) <= FailedPhase(perr)
       /\ (ppc = "apply_ret" /\ perr = Nil) =>
            /\ {1, 2, 4, 5} \subseteq {Phase(Issued[k]) : k \in 1..Len(Issued)}
            /\ Cardinality(made) = n
            /\ Cardinality(formatted) =
                 Cardinality({p \in 1..n : /\ ~layout.Partitions[p].Encrypt
                                           /\ layout.Partitions[p].Filesystem \notin {"none", "zfs"}})

\* C10 witness: ApplyLayout returned the failure of the second format
\* command of a three-partition layout.
C10_Witness ==
    /\ ppc = "apply_ret"
    /\ perr # Nil
    /\ HasPrefix(perr.Message, "failed to format ")
    /\ Len(layout.Partitions) = 3
    /\ Cardinality({k \in 1..Len(cmds) : cmds[k].cmd \in FormatTools}) = 2
    /\ ~Last(cmds).ok

\* the filesystem-creation tool that matches a filesystem kind
MatchingTool ==
    [ext4 |-> "mkfs.ext4", btrfs |-> "mkfs.btrfs", xfs |-> "mkfs.xfs",
     f2fs |-> "mkfs.f2fs", fat32 |-> "mkfs.vfat", swap |-> "mkswap"]

\* the filesystem-creation commands issued so far on the device of partition p
FormatsOf(p) ==
    SelectSeq(cmds, LAMBDA c : /\ c.cmd \in FormatTools
                               /\ Last(c.args) = getPartitionDevice(device, layout.Partitions[p].Number))

\* C11: ApplyLayout never runs a filesystem-creation tool on a partition
\* that is encrypted or whose filesystem kind is none or zfs, never runs more
\* than one on any partition, and runs only the tool that matches the kind;
\* when ApplyLayout returns nil every other partition was formatted exactly
\* once.
C11_FormatExceptions ==
    \A p \in 1..Len(layout.Partitions) :
        LET part == layout.Partitions[p] IN
        /\ (part.Encrypt \/ part.Filesystem \in {"none", "zfs"}) => FormatsOf(p) = <<>>
        /\ Len(FormatsOf(p)) <= 1
        /\ \A k \in 1..Len(FormatsOf(p)) :
             /\ part.Filesystem \in DOMAIN MatchingTool
             /\ FormatsOf(p)[k].cmd = MatchingTool[part.Filesystem]
        /\ (ppc = "apply_ret" /\ perr = Nil
              /\ ~part.Encrypt /\ part.Filesystem \notin {"none", "zfs"}) =>
             Len(FormatsOf(p)) = 1

\* C11 witness: ApplyLayout returned nil on a layout with an encrypted
\* partition, a partition without filesystem and two partitions it formatted.
C11_Witness ==
    /\ ppc = "apply_ret"
    /\ perr = Nil
    /\ \E p \in 1..Len(layout.Partitions) : layout.Partitions[p].Encrypt
    /\ \E p \in 1..Len(layout.Partitions) : layout.Partitions[p].Filesystem = "none"
    /\ Cardinality({k \in 1..Len(cmds) : cmds[k].cmd \in FormatTools}) = 2

\* "{device}p{N}" or "{device}{N}", N written out
NthDevice(dev, n, withP) ==
    dev \o (IF withP THEN "p" ELSE "") \o <<"1", "2", "3", "4", "5", "6", "7", "8", "9">>[n]

\* C12: the device of partition N of a base device is "{device}p{N}" when
\* the base path contains "nvme" or "mmcblk" and "{device}{N}" otherwise:
\* so it is for every partition of the layout, and these are the devices
\* MountPartitions mounts.
C12_DeviceNaming ==
    LET withP == device \in {"/dev/nvme0n1", "/dev/mmcblk0", "nvme0n1"}
        P == layout.Partitions
    IN /\ getPartitionDevice("/dev/nvme0n1", 1) = "/dev/nvme0n1p1"
       /\ getPartitionDevice("/dev/sda", 2) = "/dev/sda2"
       /\ \A p \in 1..Len(P) :
            getPartitionDevice(device, P[p].Number) = NthDevice(device, P[p].Number, withP)
       /\ ppc \in {"mount", "mount_ret"} =>
            /\ {mounts[k].device : k \in 1..Len(mounts)}
                 = {NthDevice(device, P[p].Number, withP) : p \in {q \in 1..Len(P) : P[q].MountPoint # ""}}
            /\ \A k \in 1..Len(cmds) :
                 cmds[k].cmd = "mount" =>
                   \E p \in 1..Len(P) :
                     /\ cmds[k].args[Len(cmds[k].args) - 1] = NthDevice(device, P[p].Number, withP)
                     /\ Last(cmds[k].args) = TargetDir \o P[p].MountPoint

\* C12 witness: MountPartitions mounted the second partition of /dev/mmcblk0
\* from /dev/mmcblk0p2.
C12_Witness ==
    /\ ppc = "mount_ret"
    /\ device = "/dev/mmcblk0"
    /\ \E k \in 1..Len(cmds) :
         /\ cmds[k].cmd = "mount"
         /\ cmds[k].ok
         /\ cmds[k].args[Len(cmds[k].args) - 1] = "/dev/mmcblk0p2"

\* the targets of Setup in the order it is to try them
SetupOrder ==
    << "/mnt/gentoo/proc", "/mnt/gentoo/sys", "/mnt/gentoo/dev", "/mnt/gentoo/dev/pts",
       "/mnt/gentoo/dev/shm", "/mnt/gentoo/run", "/mnt/gentoo/tmp",
       "/mnt/gentoo/sys/firmware/efi/efivars" >>

Efivars == "/mnt/gentoo/sys/firmware/efi/efivars"

\* C13: the mount attempts of a Setup call are mount commands in the order
\* proc, sys, dev, dev/pts, dev/shm, run (a bind mount), tmp, efivars, with
\* efivars attempted only on a UEFI host; a Setup that returns nil attempted
\* every target that was not mounted; a failed efivarfs mount leaves Setup
\* returning nil; a failed mount of any other target is the last attempt,
\* Setup returns its error, and the mounts made before it are still mounted
\* and tracked.
C13_SetupOrderAndAbort ==
    cpc \in {"setup", "setup_ret"} =>
        /\ \A k \in 1..Len(cmds) : cmds[k].cmd = "mount"
        /\ IsSubSeq(Tried, SetupOrder)
        /\ \A k \in 1..Len(cmds) :
             /\ Tried[k] = Efivars => isUEFI
             /\ Tried[k] = "/mnt/gentoo/run" <=> cmds[k].args = <<"-o", "bind", "/run", "/mnt/gentoo/run">>
             /\ cmds[k].ok => (Tried[k] \in mtab /\ Tried[k] \in Range(mounted))
             /\ (~cmds[k].ok /\ Tried[k] = Efivars) => (cpc = "setup_ret" => cerr = Nil)
             /\ (~cmds[k].ok /\ Tried[k] # Efivars) =>
                  /\ k = Len(cmds)
                  /\ cpc = "setup_ret"
                  /\ cerr = NewError("mount", "failed to mount " \o cmds[k].args[Len(cmds[k].args) - 1]
                                              \o " on " \o Tried[k], OSError)
        /\ (cpc = "setup_ret" /\ cerr = Nil) =>
             Tried = SelectSeq(SetupOrder, LAMBDA t : t \notin mtab0 /\ (t = Efivars => isUEFI))

\* C13 witness: Setup made two mounts, the third attempt failed, and Setup
\* returned its error.
C13_Witness ==
    /\ cpc = "setup_ret"
    /\ cerr # Nil
    /\ Len(cmds) = 3
    /\ cmds[1].ok /\ cmds[2].ok /\ ~cmds[3].ok
    /\ Len(mounted) = 2
    /\ Range(mounted) \subseteq mtab

\* the targets of the mount calls of the Setup in progress that succeeded
Succeeded ==
    LET oks == SelectSeq(cmds, LAMBDA c : c.cmd = "mount" /\ c.ok)
    IN [k \in 1..Len(oks) |-> Last(oks[k].args)]

\* C14: during and after a Setup call, successful or aborted, the tracked
\* list is the list the call found followed by exactly the targets whose
\* mount call it issued and saw succeed, in that order; no target that was
\* skipped as already mounted and no target whose mount failed is added.
C14_TrackedIsSucceeded ==
    cpc \in {"setup", "setup_ret"} =>
        /\ mounted = mounted0 \o Succeeded
        /\ NoDuplicates(Succeeded)
        /\ \A t \in mtab0 : t \notin Range(Succeeded)
        /\ \A k \in 1..Len(cmds) : ~cmds[k].ok => Tried[k] \notin Range(Succeeded)
        /\ ncalls = 1 => mounted0 = <<>>

\* C14 witness: an aborted Setup that skipped a target already mounted and
\* had made two mounts before the failing one.
C14_Witness ==
    /\ cpc = "setup_ret"
    /\ cerr # Nil
    /\ Len(Succeeded) = 2
    /\ \E t \in mtab0 : t \in Range(SetupOrder) /\ t \notin Range(mounted)
    /\ ~Last(cmds).ok

\* the progress events whose message begins with one of the prefixes, in order
Reports(prefixes) ==
    SelectSeq(events, LAMBDA e : /\ e.cb = "progress"
                                 /\ \E pre \in prefixes : HasPrefix(e.message, pre))

\* C15: with a progress callback set, the Starting events are those of the
\* steps 0, 1, 2, ... in order, each (step, 0, "Starting: <name>") with the
\* step already recorded as current, and each emitted before its step
\* function is invoked; the Completed events are (step, 100, "Completed:
\* <name>") of exactly the steps whose function returned nil, each after the
\* Starting event of its step and before that of the next; when Install
\* has returned an error the failing step has no Completed event and no
\* event belongs to a later step. Without the callback there is no event.
C15_ProgressEvents ==
    LET S == Reports({"Starting: "})
        C == Reports({"Completed: "})
        SC == Reports({"Starting: ", "Completed: "})
        P == SelectSeq(events, LAMBDA e : e.cb = "progress")
    IN IF ~progressCb THEN P = <<>>
       ELSE /\ Len(S) \in {Len(invoked), Len(invoked) + 1}
            /\ Len(S) = Len(invoked) + 1 <=> ipc = "call"
            /\ \A k \in 1..Len(S) :
                 S[k] = [cb |-> "progress", step |-> k - 1, progress |-> 0,
                         message |-> "Starting: " \o String(k - 1)]
            /\ S # <<>> => Last(S).step = currentStep
            /\ Len(C) = step
            /\ \A k \in 1..Len(C) :
                 C[k] = [cb |-> "progress", step |-> k - 1, progress |-> 100,
                         message |-> "Completed: " \o String(k - 1)]
            /\ \A k \in 1..Len(SC) : SC[k] = IF k % 2 = 1 THEN S[(k + 1) \div 2] ELSE C[k \div 2]
            /\ serr # Nil => Len(C) = currentStep
            /\ \A k \in 1..Len(P) : P[k].step <= currentStep
            /\ \A k \in 1..(Len(P) - 1) : P[k].step <= P[k + 1].step

\* C15 witness: Install returned the error of the kernel step, having
\* reported the completion of the step before it and the start of the
\* kernel step.
C15_Witness ==
    /\ ipc = "done"
    /\ result # Nil
    /\ progressCb
    /\ currentStep = 9
    /\ \E k \in 1..Len(events) :
         events[k] = [cb |-> "progress", step |-> 8, progress |-> 100,
                      message |-> "Completed: Installing base packages"]
    /\ \E k \in 1..Len(events) :
         events[k] = [cb |-> "progress", step |-> 9, progress |-> 0,
                      message |-> "Starting: Installing kernel"]
    /\ Last(events).message = "Installing kernel"

\* C20: a replay of Install with no callback set, on the host as the first
\* run found it and with the environment doing what it did then, never
\* gets stuck, calls no callback, and ends having invoked the same steps,
\* issued the same commands with the same outcomes and returned the same
\* value as the first run, whichever callbacks that run had set.
C20_CallbacksDoNotSteer ==
    run = 2 =>
        /\ events = <<>>
        /\ Len(tape) <= Len(first.tape)
        /\ tape = SubSeq(first.tape, 1, Len(tape))
        /\ invoked = SubSeq(first.invoked, 1, Len(invoked))
        /\ ipc = "done" =>
             /\ tape = first.tape
             /\ invoked = first.invoked
             /\ result = first.result
        /\ ipc # "done" => ENABLED NextCallbacks

\* C20 witness: the replay of a run that had both callbacks set and went
\* through all fifteen steps has returned.
C20_Witness ==
    /\ run = 2
    /\ ipc = "done"
    /\ first.cbs = <<TRUE, TRUE>>
    /\ Len(first.invoked) = 15
    /\ first.result = Nil
    /\ Len(tape) > 30

\* the sub-operations of finalize that have failed
FailedOps == {fops[k].op : k \in {j \in 1..Len(fops) : ~fops[j].ok}}

\* the sub-operations whose failure finalize only logs
WarnOnly == {"timezone", "locale", "keymap", "services"}

\* C18: finalize runs its sub-operations in order; a failed timezone,
\* locale, keymap or service-enablement sub-operation is logged and is
\* followed by the next sub-operation, and when only such sub-operations
\* failed finalize runs all seven, calls Teardown and returns nil; a failed
\* hostname, hosts or fstab write is the last sub-operation finalize runs,
\* Teardown is not called and the error of the write is what finalize
\* returns and Install wraps.
C18_FinalizeSeverity ==
    fops # <<>> =>
        /\ Len(fops) <= Len(FinalizeOps)
        /\ \A k \in 1..Len(fops) : fops[k].op = FinalizeOps[k].op
        /\ \A k \in 1..Len(fops) :
             (~fops[k].ok /\ fops[k].op \in WarnOnly) =>
                 /\ fops[k].log \in {"warn", "debug"}
                 /\ k < Len(FinalizeOps) => Len(fops) > k
        /\ FailedOps \subseteq WarnOnly =>
             /\ Len(fops) = Len(FinalizeOps)
             /\ cpc \in {"teardown", "teardown_ret"}
             /\ serr = Nil
             /\ ipc = "done" => result = Nil
        /\ \A k \in 1..Len(fops) :
             (~fops[k].ok /\ fops[k].op \in {"hostname", "hosts", "fstab"}) =>
                 /\ k = Len(fops)
                 /\ cpc = "setup_ret"
                 /\ ipc \in {"ret", "done"}
                 /\ serr \in WriteFileErrors
                 /\ ipc = "done" =>
                      result = Errorf("step Finalizing installation failed: ", ErrorString(serr), serr)

\* C18 witness: timezone, locale, keymap and service enablement all failed
\* and Install returned nil after Teardown unmounted the chroot.
C18_Witness ==
    /\ ipc = "done"
    /\ result = Nil
    /\ FailedOps = WarnOnly
    /\ cpc = "teardown_ret"
    /\ \E k \in 1..Len(cmds) : cmds[k].cmd = "umount"

\* the errors of the chain of e: e, what it wraps, and so on
RECURSIVE Chain(_)
Chain(e) ==
    IF e = Nil THEN {}
    ELSE {e} \cup (IF "Err" \in DOMAIN e THEN Chain(e.Err) ELSE {})

\* C19 as claimed: an error that Install returns is, or wraps, a structured
\* error with an operation tag and a message.
C19_StructuredErrors ==
    (ipc = "done" /\ result # Nil) =>
        \E e \in Chain(result) : e.type = "YunoError" /\ e.Op # "" /\ e.Message # ""

\* the target of a mount command
MountTarget(c) == c.args[Len(c.args)]

\* C17 as claimed: a run of MountPartitions issues no mount call for a
\* mount point that was already mounted when the run began.
C17_RemountSkips ==
    \A k \in 1..Len(cmds) : cmds[k].cmd = "mount" => MountTarget(cmds[k]) \notin mtab0

\* the lines of stream s that were handed to the callback, in order
Delivered(s) ==
    LET of == SelectSeq(delivered, LAMBDA d : d.stream = s)
    IN [k \in 1..Len(of) |-> of[k].line]

\* C16 as claimed: when RunCommandWithOutput has returned what cmd.Wait
\* returned, both readers have consumed their stream to its end, a callback
\* that is set was called with line 1, 2, ... of each stream, once each and
\* in order, and no call was made after the return.
C16_AllLinesDelivered ==
    (rpc.main = "returned" /\ rpc.stdout = "done") =>
        /\ \A s \in Streams : scanned[s] = Len(written[s])
        /\ callback => \A s \in Streams : Delivered(s) = [k \in 1..Len(written[s]) |-> k]
        /\ \A k \in 1..Len(delivered) : ~delivered[k].returned

\* the positions in cmds of the commands named name
Positions(name) == {k \in 1..Len(cmds) : cmds[k].cmd = name}

\* the devices of the layout's swap partitions, in layout order
SwapDevices ==
    LET swaps == SelectSeq(layout.Partitions, LAMBDA part : part.Filesystem = "swap")
    IN [k \in 1..Len(swaps) |-> getPartitionDevice(device, swaps[k].Number)]

\* C22: a swapon is issued only when every mount-pointed partition has had
\* its mount call and all of them succeeded; a run that returns an error
\* stopped at the failed directory creation or at the failed mount, which is
\* its last command, has issued no swapon and no umount, and has left what
\* it mounted in the mount table; a run whose mounts all succeeded issues
\* one swapon per swap partition and returns nil whatever the swapons did.
C22_SwapAfterMounts ==
    LET mountsDone == SelectSeq(cmds, LAMBDA c : c.cmd = "mount")
        swapons == SelectSeq(cmds, LAMBDA c : c.cmd = "swapon")
    IN ppc \in {"mount", "mount_ret"} =>
       /\ Positions("umount") = {}
       /\ \A k \in 1..Len(mountsDone) : mountsDone[k].ok => MountTarget(mountsDone[k]) \in mtab
       /\ mtab0 \subseteq mtab
       /\ \A k \in Positions("swapon") :
            /\ Len(mountsDone) = Len(LayoutMountPoints)
            /\ \A j \in Positions("mount") : j < k /\ cmds[j].ok
       /\ (ppc = "mount_ret" /\ perr # Nil) =>
            /\ swapons = <<>>
            /\ Len(mountsDone) <= Len(LayoutMountPoints)
            /\ \A j \in 1..Len(mountsDone) : mountsDone[j].ok <=> j < Len(mountsDone) \/ perr.Op = "partition"
            /\ perr.Op \in {"partition", "mount"}
       /\ (ppc = "mount_ret" /\ perr = Nil) =>
            /\ Len(mountsDone) = Len(LayoutMountPoints)
            /\ \A j \in 1..Len(mountsDone) : mountsDone[j].ok
            /\ [k \in 1..Len(swapons) |-> swapons[k].args] = [k \in 1..Len(SwapDevices) |-> <<SwapDevices[k]>>]

\* C22 witness: MountPartitions returned nil after two mounts and a swapon
\* that failed.
C22_Witness ==
    /\ ppc = "mount_ret"
    /\ perr = Nil
    /\ Cardinality(Positions("mount")) = 2
    /\ \E k \in Positions("swapon") : ~cmds[k].ok

\* C24: a Teardown that has returned has left the tracked list empty and
\* returned no error, whatever its unmounts did; a Teardown issues unmounts
\* only for entries of the list it found, so one that finds the list empty
\* issues none; and a target enters the tracked list only in a step that
\* mounts it, so a target that a failed unmount left mounted is not tracked
\* again and no later Teardown issues an unmount for it.
C24_TeardownClears ==
    /\ [](/\ cpc = "teardown_ret" => (mounted = <<>> /\ cerr = Nil)
          /\ cpc \in {"teardown", "teardown_ret"} =>
               /\ \A k \in Positions("umount") : MountTarget(cmds[k]) \in Range(mounted0)
               /\ mounted0 = <<>> => cmds = <<>>)
    /\ [][\A t \in Range(mounted') \ Range(mounted) : t \notin mtab /\ t \in mtab']_vars

\* C24 witness: a Teardown that found the list empty has returned without a
\* command, while two chroot targets are still mounted, one of them left
\* behind by a failed unmount of an earlier Teardown.
C24_Witness ==
    /\ cpc = "teardown_ret"
    /\ mounted0 = <<>>
    /\ cmds = <<>>
    /\ ncalls = 3
    /\ Cardinality(mtab \cap Range(SetupOrder)) >= 2

\* a command whose failure WipeDisk and CreatePartition only log
Advisory(c) == c.cmd = "umount" \/ (c.cmd = "parted" /\ c.args[3] = "set")

Creations == SelectSeq(cmds, LAMBDA c : c.cmd = "parted" /\ c.args[3] \in {"mkpart", "set"})

\* the number of mkpart commands among the first k of Creations
RECURSIVE Made(_)
Made(k) == IF k = 0 THEN 0 ELSE Made(k - 1) + (IF Creations[k].args[3] = "mkpart" THEN 1 ELSE 0)

\* C26: the number on the k-th partition of the layout is k; the k-th
\* mkpart command is issued with the start and end of the k-th partition;
\* a flag is set on the number of the partition made last, and a format
\* command addresses the device of a partition of the layout, whose number
\* is at most the number of partitions made.
C26_CreationOrder ==
    LET n == Len(layout.Partitions)
        made == SelectSeq(Creations, LAMBDA c : c.args[3] = "mkpart")
    IN /\ \A k \in 1..n : layout.Partitions[k].Number = k
       /\ Len(made) <= n
       /\ \A k \in 1..Len(made) :
            SubSeq(made[k].args, Len(made[k].args) - 1, Len(made[k].args))
                = <<layout.Partitions[k].Start, layout.Partitions[k].End>>
       /\ \A k \in 1..Len(Creations) :
            Creations[k].args[3] = "set" =>
                /\ Creations[k].args[4] = Itoa(Made(k))
                /\ Creations[k].args[5] \in Range(layout.Partitions[Made(k)].Flags)
       /\ \A k \in 1..Len(cmds) :
            cmds[k].cmd \in FormatTools =>
                \E p \in 1..Len(made) :
                    /\ Last(cmds[k].args) = NthDevice(device, p, Contains(device, "nvme") \/ Contains(device, "mmcblk"))
                    /\ cmds[k].cmd = MatchingTool[layout.Partitions[p].Filesystem]

\* C26 witness: ApplyLayout returned nil for a layout of four partitions
\* after setting a flag on partition 1 and formatting partition 4.
C26_Witness ==
    /\ ppc = "apply_ret"
    /\ perr = Nil
    /\ Len(layout.Partitions) = 4
    /\ \E k \in 1..Len(Creations) : Creations[k].args[3] = "set" /\ Creations[k].args[4] = "1"
    /\ \E k \in 1..Len(cmds) : cmds[k].cmd \in FormatTools /\ Last(cmds[k].args) = device \o "4"

\* the size in MiB of the disk the configured device names, -1 if the
\* inventory has no such disk
DeviceMiB ==
    LET found == SelectSeq(disks, LAMBDA d : d.Path = device \/ d.Name = device)
    IN IF found = <<>> THEN -1 ELSE found[1].SizeMiB

\* number, start, end, filesystem and mount point of the planned partitions
Geometry ==
    [k \in 1..Len(layout.Partitions) |->
        LET part == layout.Partitions[k]
        IN <<part.Number, part.Start, part.End, part.Filesystem, part.MountPoint>>]

C28_SameDeviceNaming ==
    /\ \A n \in 1..(MaxParts + 8) :
         installer_getPartitionDevice(device, n) = getPartitionDevice(device, n)
    /\ \A k \in Positions("blkid") :
         \E p \in 1..Len(layout.Partitions) :
             Last(cmds[k].args) = getPartitionDevice(device, layout.Partitions[p].Number)

\* C28 witness: generateFstab has looked up partition 2 of an mmcblk device.
C28_Witness ==
    /\ ipc = "ret"
    /\ device = "/dev/mmcblk0"
    /\ \E k \in Positions("blkid") : Last(cmds[k].args) = "/dev/mmcblk0p2"

\* the fields of a line: the substrings between the tabs, the newline dropped
RECURSIVE Fields(_)
Fields(line) ==
    LET stops == {k \in 1..Len(line) : SubSeq(line, k, k) \in {"\t", "\n"}}
    IN IF stops = {} THEN IF line = "" THEN <<>> ELSE <<line>>
       ELSE LET k == CHOOSE x \in stops : \A y \in stops : x <= y
            IN <<SubSeq(line, 1, k - 1)>> \o Fields(SubSeq(line, k + 1, Len(line)))

\* the UUID blkid reported for partition number n, "" if none
UUIDOf(n) == IF blkid[n] \in {"", "\n"} THEN "" ELSE "0a1b-2c3d"

\* how the fstab is to name partition number n
NameOf(n) ==
    IF UUIDOf(n) # "" THEN "UUID=" \o UUIDOf(n)
    ELSE NthDevice(device, n, Contains(device, "nvme") \/ Contains(device, "mmcblk"))

\* C30: the fstab generateFstab wrote has, after its two header strings, one
\* line per partition with a mount point, in layout order, then one line
\* per swap partition, in layout order; a line names its partition by
\* UUID=<uuid> when blkid printed a UUID for it and by the partition device
\* otherwise; a filesystem line carries the mount point and the filesystem,
\* vfat for fat32, and has six fields; a swap line is <name> none swap sw 0 0.
C30_FstabLines ==
    (ipc = "ret" /\ serr = Nil) =>
        LET withMP == SelectSeq(layout.Partitions, LAMBDA part : part.MountPoint # "")
            swaps == SelectSeq(layout.Partitions, LAMBDA part : part.Filesystem = "swap")
            lines == SubSeq(fstab, 3, Len(fstab))
        IN /\ Len(fstab) = 2 + Len(withMP) + Len(swaps)
           /\ \A k \in 1..Len(lines) : SubSeq(lines[k], Len(lines[k]), Len(lines[k])) = "\n"
           /\ \A k \in 1..Len(withMP) :
                LET f == Fields(lines[k])
                IN /\ Len(f) = 6
                   /\ f[1] = NameOf(withMP[k].Number)
                   /\ f[2] = withMP[k].MountPoint
                   /\ f[3] = IF withMP[k].Filesystem = "fat32" THEN "vfat" ELSE withMP[k].Filesystem
                   /\ f[5] = "0"
           /\ \A k \in 1..Len(swaps) :
                Fields(lines[Len(withMP) + k]) = <<NameOf(swaps[k].Number), "none", "swap", "sw", "0", "0">>

\* C30 witness: an fstab was written with a vfat line named by UUID and a
\* swap line named by its device path.
C30_Witness ==
    /\ ipc = "ret"
    /\ serr = Nil
    /\ \E k \in 1..Len(fstab) : Fields(fstab[k]) = <<"UUID=0a1b-2c3d", "/boot", "vfat", "defaults,umask=0077", "0", "2">>
    /\ \E k \in 1..Len(fstab) : Fields(fstab[k]) = <<"/dev/sda2", "none", "swap", "sw", "0", "0">>

\* C23: UnmountPartitions issues swapoff -a, then one umount -R of the
\* target root and nothing else; it returns nil when that umount succeeded,
\* whatever swapoff did, and the unmount error wrapping the command's error
\* when it failed.
C23_UnmountOrder ==
    ppc = "unmount_ret" =>
        /\ Len(cmds) = 2
        /\ cmds[1].cmd = "swapoff" /\ cmds[1].args = <<"-a">>
        /\ cmds[2].cmd = "umount" /\ cmds[2].args = <<"-R", "/mnt/gentoo">>
        /\ perr = Nil <=> cmds[2].ok
        /\ perr # Nil => perr = NewError("unmount", "failed to unmount /mnt/gentoo", OSError)
        /\ cmds[2].ok => {t \in mtab : HasPrefix(t, "/mnt/gentoo")} = {}

\* C23 witness: UnmountPartitions returned nil after a failed swapoff and
\* an unmount that took two mounted partitions away.
C23_Witness ==
    /\ ppc = "unmount_ret"
    /\ ~cmds[1].ok
    /\ perr = Nil
    /\ Cardinality(mtab0) = 2
    /\ mtab = {}

\* the entries of s3log for the operation op
Did(op) == SelectSeq(s3log, LAMBDA d : d.op = op)

\* the digests that give a checksum for the tarball that is not its SHA256
Mismatching(d) ==
    /\ d.fetched # ""
    /\ \E k \in 1..Len(d.digests) :
         /\ d.digests[k].len >= 64
         /\ Contains(d.digests[k].text, Tarball)
         /\ d.digests[k].hash \notin {"9f2c", "9F2C"}
         /\ \A j \in 1..(k - 1) : d.digests[j].len < 64 \/ ~Contains(d.digests[j].text, Tarball)

\* C29: the tarball is extracted only after it was downloaded and
\* VerifyChecksum and VerifyGPG have returned, at most once; when the
\* digests give a different checksum for the tarball and its hash could be
\* computed, Install returns the mismatch and no extraction is attempted;
\* when no checksum file could be fetched the step goes on, and whatever
\* became of the signature the extraction follows it.
C29_ExtractAfterVerify ==
    /\ Len(Did("extract")) <= 1
    /\ s3log # <<>> /\ Last(s3log).op = "extract" => s3pc = "ret"
    /\ \A k \in 1..Len(s3log) :
         s3log[k].op = "extract" =>
             /\ k = 5
             /\ s3log[2].op = "download" /\ s3log[2].ok
             /\ s3log[3].op = "checksum"
             /\ s3log[3].outcome \in {"skipped", "compared"}
             /\ ~(Mismatching(s3log[3]) /\ s3log[3].outcome = "compared")
             /\ s3log[4].op = "gpg"
    /\ \A k \in 1..Len(s3log) :
         (s3log[k].op = "checksum" /\ Mismatching(s3log[k]) /\ s3log[k].outcome = "compared") =>
             /\ k = Len(s3log)
             /\ s3pc = "ret"
             /\ s3err # Nil
             /\ HasPrefix(s3err.Message, "checksum mismatch: ")
    /\ \A k \in 1..Len(s3log) :
         (s3log[k].op = "checksum" /\ s3log[k].fetched = "") =>
             /\ s3log[k].outcome = "skipped"
             /\ s3pc # "ret" \/ Len(s3log) > k
             /\ (s3pc = "ret" /\ s3err = Nil) => Did("extract") = <<[op |-> "extract", ok |-> TRUE]>>
    /\ (s3pc = "ret" /\ Did("gpg") # <<>>) =>
         \/ Did("extract") # <<>>
         \/ s3err.Message = "failed to create target directory"

\* C29 witness: the tarball was extracted and Install returned nil although
\* no checksum file could be fetched and the signature did not verify.
C29_Witness ==
    /\ s3pc = "ret"
    /\ s3err = Nil
    /\ Did("checksum")[1].fetched = ""
    /\ Did("gpg")[1].signature
    /\ ~Did("gpg")[1].verified
    /\ Did("extract") = <<[op |-> "extract", ok |-> TRUE]>>

\* C21: in dry-run mode yuno-use leaves /etc/portage as it found it at every
\* point of its run: neither directory is created, a package.use file stays
\* a file, and no file in either directory is created or grown.
C21_DryRunChangesNothing ==
    config.DryRun =>
        /\ files = files0
        /\ ypc # "exit"
        /\ \A k \in 1..Len(printed) : HasPrefix(printed[k], "Would add: ")

\* C21 witness: a dry run has finished with requirements of both kinds on
\* a system whose package.use is still a file and whose keywords directory
\* is missing.
C21_Witness ==
    /\ config.DryRun
    /\ ypc = "done"
    /\ files0.packageUse = "file"
    /\ files0.keywords = "missing"
    /\ Len(useReqs) >= 1
    /\ Len(keywordReqs) >= 1
    /\ Len(printed) = Len(useReqs) + Len(keywordReqs)

\* the lines of the file at path that are the line, up to the white space
\* around them
Occurrences(fs, path, line) ==
    IF path \in DOMAIN fs.content
    THEN Len(SelectSeq(SplitLines(fs.content[path]), LAMBDA l : TrimSpace(l) = TrimSpace(line)))
    ELSE 0

\* the target file and the line of each requirement of the input
Targets ==
    {[path |-> Join(PackageUseDir, sanitizeFilename(useReqs[k].Atom) \o ".use"),
      line |-> useReqs[k].Atom \o " " \o StringsJoin(useReqs[k].Flags, " ")] : k \in 1..Len(useReqs)}
    \cup {[path |-> Join(KeywordsDir, sanitizeFilename(keywordReqs[k].Atom) \o ".accept_keywords"),
           line |-> keywordReqs[k].Atom \o " " \o keywordReqs[k].Keyword] : k \in 1..Len(keywordReqs)}

\* no call of the run that told the user these things failed
NoFailure(said) == \A k \in 1..Len(said) : ~HasPrefix(said[k], "Failed")

\* C31: when yuno-use (not in dry-run mode) has run to its end twice on the
\* same input with no file operation failing, the files of package.use and
\* package.accept_keywords are as the first run left them, the second run
\* found every requirement line in its file, and each line is there once
\* unless it was there more often before the first run.
C31_SecondRunChangesNothing ==
    (/\ ~config.DryRun
     /\ yrun = 2
     /\ ypc = "done"
     /\ NoFailure(printed1)
     /\ NoFailure(printed)) =>
        /\ files.content = files1.content
        /\ \A k \in 1..Len(printed) : printed[k] = "Already exists!"
        /\ \A t \in Targets :
             Occurrences(files, t.path, t.line) <= IF Occurrences(files0, t.path, t.line) = 0 THEN 1
                                                    ELSE Occurrences(files0, t.path, t.line)

\* the title under which the README lists each screen
Documented ==
    [n \in Range(Screen) |->
        CASE n = "Disk" -> "Disk Selection"
          [] n = "Partition" -> "Partitioning"
          [] n = "InitSystem" -> "Init System (OpenRC/systemd)"
          [] n = "CFlags" -> "Compiler Flags"
          [] n = "UseFlags" -> "USE Flags"
          [] n = "Kernel" -> "Kernel Selection"
          [] n = "Graphics" -> "Graphics Drivers"
          [] n = "Desktop" -> "Desktop Environment"
          [] n = "Packages" -> "Package Preferences"
          [] n = "SecureBoot" -> "Secure Boot"
          [] n = "Timezone" -> "Timezone & Locale"
          [] n = "Users" -> "User Accounts"
          [] n = "Install" -> "Installation"
          [] n = "Complete" -> "Complete!"
          [] OTHER -> n]

\* the current screen's selections pass its validation
Validates(a) ==
    /\ a.screen = ScreenDisk => (Len(a.diskList) > 0 /\ a.selectedDisk < Len(a.diskList))
    /\ a.screen = ScreenUsers => a.RootPassword # ""

\* the key of the message handled last, "" when it was no key
Pressed(msg) == IF msg.type = "tea.KeyMsg" THEN msg.key ELSE ""

Successors(a) == {n \in {Update(a, msg).app : msg \in Messages} : n.focusIndex <= MaxFocus}

\* the models some sequence of messages leads to from those of S
RECURSIVE Reachable(_)
Reachable(S) ==
    LET T == S \cup UNION {Successors(a) : a \in S}
    IN IF T = S THEN S ELSE Reachable(T)

\* C40: from the Welcome screen of a freshly created application that has
\* received the detected disks, some sequence of messages leads to the
\* Installation screen and some to the Complete screen.
C40_InstallationReachable ==
    (/\ app = [NewApp EXCEPT !.diskList = MockDisks]
     /\ tcmds = <<>>) =>
        /\ \E a \in Reachable({app}) : a.screen = ScreenInstall
        /\ \E a \in Reachable({app}) : a.screen = ScreenComplete

\* the device a mount command mounts: the argument before the target
MountSource(c) == c.args[Len(c.args) - 1]

\* the k-th command of the run is a mount of a device that no earlier
\* command of the run created a filesystem on
MountsUnformatted(k) ==
    /\ dlog[k].cmd = "mount"
    /\ ~\E j \in 1..(k - 1) :
          /\ dlog[j].cmd \in FormatTools
          /\ dlog[j].ok
          /\ dlog[j].args[Len(dlog[j].args)] = MountSource(dlog[k])

\* C33: in an Install run with encryption enabled, every device the mount
\* step mounts had a filesystem created on it earlier in the run, and the
\* encrypted root partition is mounted through its mapping, never as the
\* raw partition ApplyLayout left unformatted
C33_MountedDevicesAreFormatted ==
    useEncryption =>
        \A k \in 1..Len(dlog) :
            /\ ~MountsUnformatted(k)
            /\ dlog[k].cmd = "mount" =>
                   \A n \in 1..Len(layout.Partitions) :
                       layout.Partitions[n].Encrypt =>
                           MountSource(dlog[k]) # getPartitionDevice(device, layout.Partitions[n].Number)

\* the configured device is the path of a disk lsblk lists
Listed(dev) == \E k \in 1..Len(disks) : disks[k].Path = dev

\* the commands ApplyLayout changes a disk with
Destructive == {"umount", "wipefs", "dd", "parted"} \cup FormatTools

\* C38: when the configured device is empty or is no disk of the inventory,
\* no destructive command is issued, no step but the partition step is
\* invoked, the partition step returns an error and Install returns that
\* error as the failure of step 0
C38_NoDiskFailsBeforeDestruction ==
    ~Listed(device) =>
        /\ \A k \in 1..Len(dlog) : dlog[k].cmd \notin Destructive
        /\ step = 0
        /\ \A k \in 1..Len(invoked) : invoked[k] = "partitionDisk"
        /\ ppc \in {"idle", "planned"}
        /\ ipc = "ret" => serr # Nil
        /\ ipc = "done" => result = Errorf("step " \o String(0) \o " failed: ", ErrorString(serr), serr) /\ serr # Nil

\* Install has returned the failure of the partition step for a device
\* that is not in the inventory
C38_Witness ==
    /\ ~Listed(device)
    /\ ipc = "done"
    /\ result # Nil
    /\ invoked = <<"partitionDisk">>
    /\ dlog = <<>>

\* C34 as claimed: the stdout reader and the stderr reader of
\* RunCommandWithOutput are never inside the callback at the same time.
C34_CallbacksNeverOverlap == ~(rpc.stdout = "callback" /\ rpc.stderr = "callback")

\* the readers that have not returned from readPipe
Reading == {s \in Streams : rpc[s] \in {"scan", "callback"}}

\* C35: once the command has been started, the WaitGroup counter is the
\* number of readers that have not returned, so each reader's one wg.Done
\* brings it to zero and never below; the exit status is collected only
\* after both readers returned; and the join ends: RunCommandWithOutput
\* leaves wg.Wait and returns what cmd.Wait returns, unless the command never
\* exits because it is blocked on a stream whose reader stopped early
C35_JoinTerminates ==
    /\ [](rpc.main = "wait" => wg = Cardinality(Reading))
    /\ [](wg \in 0..2)
    /\ [][(rpc.main = "wait" /\ rpc'.main # "wait") => Reading = {}]_vars
    /\ [](rpc.main = "blocked" => \E s \in Streams : scanned[s] < Len(written[s]))
    /\ (rpc.main = "wait") ~> (rpc.main \in {"returned", "blocked"})

\* RunCommandWithOutput has returned the exit status of a command both of
\* whose streams were read to their end through the callback
C35_Witness ==
    /\ rpc.main = "returned"
    /\ callback
    /\ wg = 0
    /\ \A s \in Streams : rpc[s] = "done" /\ scanned[s] = Len(written[s]) /\ Len(written[s]) > 0

\* the place of a target in the order of DefaultMounts; 0 for a path that
\* is no target of DefaultMounts
CanonicalIndex(target) ==
    LET at == {k \in 1..Len(DefaultMounts(TargetDir)) : DefaultMounts(TargetDir)[k].Target = target}
    IN IF at = {} THEN 0 ELSE CHOOSE k \in at : TRUE

\* C36: whatever sequence of Setup and Teardown calls a session has seen,
\* with mounts and unmounts free to fail, the tracked list holds only
\* targets of DefaultMounts under the target root, each at most once, in
\* the order of DefaultMounts, so that dev precedes dev/pts and dev/shm and
\* sys precedes sys/firmware/efi/efivars
C36_TrackedCanonical ==
    /\ \A k \in 1..Len(mounted) :
         /\ CanonicalIndex(mounted[k]) > 0
         /\ HasPrefix(mounted[k], TargetDir \o "/")
    /\ \A j \in 1..Len(mounted), k \in 1..Len(mounted) :
         j < k => CanonicalIndex(mounted[j]) < CanonicalIndex(mounted[k])

\* a second Setup has added targets to the list a first Setup left
C36_Witness ==
    /\ cpc = "setup_ret"
    /\ ncalls >= 2
    /\ mounted0 # <<>>
    /\ Len(mounted) > Len(mounted0)
    /\ \E k \in 1..Len(mounted) : mounted[k] = Join(TargetDir, "dev/pts")

\* no unmount command of the call in progress failed
UnmountsOk == \A k \in 1..Len(cmds) : cmds[k].cmd = "umount" => cmds[k].ok

\* C37: when Teardown has returned and none of its unmounts failed, every
\* target on the list it was called with is unmounted and every other
\* target that was mounted when it was called is still mounted; when the
\* session's calls were Setup, then Teardown, the mount table is the one
\* Setup found
C37_TeardownRestores ==
    (cpc = "teardown_ret" /\ UnmountsOk) =>
        /\ \A k \in 1..Len(mounted0) : ~IsMounted(mounted0[k])
        /\ \A t \in mtab0 : (\A k \in 1..Len(mounted0) : mounted0[k] # t) => IsMounted(t)
        /\ ncalls = 2 => mtab = first.mtab

\* Setup skipped a target that was mounted before it and mounted others,
\* and Teardown unmounted them
C37_Witness ==
    /\ cpc = "teardown_ret"
    /\ ncalls = 2
    /\ UnmountsOk
    /\ Len(mounted0) >= 2
    /\ first.mtab # {}
    /\ mtab = first.mtab

====
